---- MODULE Spec2Model ----
(***************************************************************************)
(* Crypto market data service: candle store and cache (repositories.py,    *)
(* infrastructure/cache.py, infrastructure/database.py), the collection    *)
(* scheduler with its per-exchange pause gate and gap-fill                 *)
(* (infrastructure/scheduler.py) and the ticker cache-through read.        *)
(*                                                                         *)
(* Time is counted in ticks of one second; candle timestamps are counted   *)
(* in the same ticks (the code keeps them in milliseconds, 1000 per tick). *)
(* Price and volume values are small integers standing for decimals that   *)
(* the Numeric(18,8) / Numeric(18,4) columns hold exactly.                 *)
(***************************************************************************)
EXTENDS Integers, Sequences, FiniteSets, Bags, TLC

VARIABLES
  store,      \* the rows of the ohlcv table (committed)
  cache,      \* the members of the OHLCV sorted sets of Redis
  res,        \* the outcome of the last repository call that returned
  lastWrite,  \* history: per identity key, the record of the last committed save
  nsaves,     \* number of save calls so far
  now,        \* time.time(), in seconds
  paused,     \* CollectionScheduler._paused: exchange -> resume time or None
  cjob,       \* the running instance of each candle job (_collect_ohlcv), or
              \* the open session of a caller of save, with its batch
  tjob,       \* the running instance of each ticker job (_collect_ticker)
  gap,        \* the gap-fill task (_fill_ohlcv_gap) and its local variables
  tcache,     \* the ticker strings of Redis: key -> [last, timestamp, expires]
  rlUntil,    \* history: exchange -> latest t + retry_after of an observed RateLimited
  lastFire,   \* history: the last fire of a job or start of a gap-fill task
  lastCall,   \* history: the last adapter call issued by a background task
  tfind       \* the running call of TickerRepository.find, TickerRepository.find_all
              \* or OHLCVRepository.find

\* A step of the model is the stretch of one coroutine between two awaits:
\* a task that awaits the database, Redis or the venue is held in cjob,
\* tjob, gap or tfind until the awaited call returns, and the other tasks
\* run meanwhile.

repoVars == <<store, cache, res, lastWrite, nsaves>>
schedVars == <<now, paused, cjob, tjob, gap, tcache, rlUntil, lastFire, lastCall, tfind>>
vars == <<store, cache, res, lastWrite, nsaves, now, paused, cjob, tjob, gap, tcache, rlUntil, lastFire, lastCall, tfind>>

(***************************************************************************)
(* Bounds of the model.                                                    *)
(***************************************************************************)
MaxTs == 2
MaxBatch == 2
MaxSaves == 2
MaxTime == 8

(***************************************************************************)
(* Program constants, scaled down (source value in the comment).           *)
(***************************************************************************)
\* Cache.ohlcv_cache_size, 500 in the source.
ohlcv_cache_size == 1
\* OHLCVRepository.find reads the cache only when limit <= 500.
CacheReadLimit == 1
\* OHLCVRepository.find: limit = min(limit, 1000).
MaxLimit == 2

\* ExchangeClient raises RateLimitError(retry_after=60): one candle interval.
RetryAfter == 2
\* TIMEFRAME_SECONDS["1m"] = 60 seconds (timeframe_ms = 60000).
timeframe_ms == 2
\* gap_days * 24 * 60 * 60 * 1000 (gap_days = 7), here 2.5 intervals.
GapWindow == 5
\* batch_size = 1000 candles per gap-fill fetch.
batch_size == 2
\* _collect_ohlcv fetches the last 10 candles.
TailSize == 2
\* await asyncio.sleep(1.0) between gap-fill batches.
BatchSleep == 1
\* Cache.ticker_ttl = 10 seconds.
ticker_ttl == 3

\* Optional[...] = None
None == -1
\* cursor: Optional[str]: the empty string, which is not None, is falsy and
\* has no integer value. The other cursors are the decimal strings of
\* timestamps, written as the timestamps.
EmptyCursor == -2
\* A ticker key that was never written.
NoTicker == [last |-> None, timestamp |-> 0, expires |-> 0]

Exchanges == {"okx", "binance"}
Symbols == {"BTC/USDT"}
Timeframes == {"1m"}
\* A collection tuple: (exchange, symbol, timeframe).
Tuples == Exchanges \X Symbols \X Timeframes
Timestamps == 0..MaxTs

\* The scheduler specification runs the tasks of one configured tuple: its
\* candle job, the ticker job of its exchange and symbol, and a gap-fill task.
GapTuple == <<"okx", "BTC/USDT", "1m">>
CandleJobs == {GapTuple}
TickerJobs == {GapTuple[1]}

\* The open/high/low/close/volume of a candle.
Bars ==
  { [open |-> 1, high |-> 2, low |-> 1, close |-> 1, volume |-> 1],
    [open |-> 1, high |-> 2, low |-> 1, close |-> 2, volume |-> 3] }

\* models.OHLCV: one candle record.
OHLCV(tup, ts, bar) ==
  [exchange |-> tup[1], symbol |-> tup[2], timeframe |-> tup[3], timestamp |-> ts,
   open |-> bar.open, high |-> bar.high, low |-> bar.low, close |-> bar.close,
   volume |-> bar.volume]

Rows == {OHLCV(tup, ts, bar) : tup \in Tuples, ts \in Timestamps, bar \in Bars}

\* The unique constraint uq_ohlcv_key of the ohlcv table.
Key(r) == <<r.exchange, r.symbol, r.timeframe, r.timestamp>>
TupleOf(r) == <<r.exchange, r.symbol, r.timeframe>>

Range(s) == {s[i] : i \in DOMAIN s}

Min(a, b) == IF a < b THEN a ELSE b

(***************************************************************************)
(* Candle store: the ohlcv table and the upsert of OHLCVRepository.save.   *)
(***************************************************************************)

\* PostgreSQL refuses an INSERT ... ON CONFLICT DO UPDATE whose VALUES list
\* proposes the same constrained key twice (cardinality_violation).
HasDuplicateKeys(records) ==
  \E i, j \in DOMAIN records : i # j /\ Key(records[i]) = Key(records[j])

\* Mutant of Upsert: set_ lacks the volume column.
Upsert_without_volume(st, records) ==
  LET proposed == Range(records)
      conflicting == {e \in st : \E x \in proposed : Key(x) = Key(e)}
      excluded(e) == CHOOSE x \in proposed : Key(x) = Key(e)
      updated == {[e EXCEPT !.open = excluded(e).open, !.high = excluded(e).high,
                            !.low = excluded(e).low, !.close = excluded(e).close] : e \in conflicting}
      inserted == {x \in proposed : ~ \E e \in st : Key(e) = Key(x)}
  IN  (st \ conflicting) \cup updated \cup inserted

\* insert(OHLCV).values([...]).on_conflict_do_update(constraint='uq_ohlcv_key',
\* set_={open, high, low, close, volume <- excluded}).
Upsert(st, records) ==
  LET proposed == Range(records)
      conflicting == {e \in st : \E x \in proposed : Key(x) = Key(e)}
      excluded(e) == CHOOSE x \in proposed : Key(x) = Key(e)
      updated == {[e EXCEPT !.open = excluded(e).open, !.high = excluded(e).high,
                            !.low = excluded(e).low, !.close = excluded(e).close,
                            !.volume = excluded(e).volume] : e \in conflicting}
      inserted == {x \in proposed : ~ \E e \in st : Key(e) = Key(x)}
  IN  (st \ conflicting) \cup updated \cup inserted

(***************************************************************************)
(* OHLCV cache: one Redis sorted set per tuple, member = json of the       *)
(* record, score = timestamp.                                              *)
(***************************************************************************)

\* Order of a sorted set: by score, ties by the member's bytes. Two members of
\* one key with one timestamp differ first in open, high, low, close or volume
\* of the serialized record (one digit each in this model).
MemberLess(a, b) ==
  LET sa == <<a.timestamp, a.open, a.high, a.low, a.close, a.volume>>
      sb == <<b.timestamp, b.open, b.high, b.low, b.close, b.volume>>
  IN  \E i \in 1..6 : sa[i] < sb[i] /\ \A j \in 1..(i - 1) : sa[j] = sb[j]

RECURSIVE Ascending(_)
\* The members of a set in sorted-set order.
Ascending(S) ==
  IF S = {} THEN <<>>
  ELSE LET lo == CHOOSE m \in S : \A o \in S \ {m} : MemberLess(m, o)
       IN  <<lo>> \o Ascending(S \ {lo})

Prefix(s, n) == SubSeq(s, 1, Min(n, Len(s)))
Suffix(s, n) == SubSeq(s, Len(s) - Min(n, Len(s)) + 1, Len(s))

\* Cache._ohlcv_key
ohlcv_key(r) == TupleOf(r)

\* Mutant of cache_ohlcv: the trim removes the ranks from ohlcv_cache_size on,
\* so the oldest members stay.
cache_ohlcv_trim_newest(ca, records) ==
  LET added == ca \cup Range(records)
      keys == {ohlcv_key(r) : r \in Range(records)}
      kept(k) == Range(Prefix(Ascending({m \in added : ohlcv_key(m) = k}), ohlcv_cache_size))
  IN  {m \in added : ohlcv_key(m) \notin keys \/ m \in kept(ohlcv_key(m))}

\* Cache.cache_ohlcv: zadd every record to its key, then
\* zremrangebyrank(key, 0, -(ohlcv_cache_size + 1)) on each key of the batch.
cache_ohlcv(ca, records) ==
  LET added == ca \cup Range(records)
      keys == {ohlcv_key(r) : r \in Range(records)}
      kept(k) == Range(Suffix(Ascending({m \in added : ohlcv_key(m) = k}), ohlcv_cache_size))
  IN  {m \in added : ohlcv_key(m) \notin keys \/ m \in kept(ohlcv_key(m))}

\* Cache.get_ohlcv: zrangebyscore(key, min, max, start=0, num=limit); a
\* negative count makes Redis return every member of the range.
get_ohlcv(ca, tup, start, end, limit) ==
  LET inRange == {m \in ca : /\ ohlcv_key(m) = tup
                             /\ (start = None \/ m.timestamp >= start)
                             /\ (end = None \/ m.timestamp <= end)}
  IN  IF limit < 0 THEN Ascending(inRange) ELSE Prefix(Ascending(inRange), limit)

(***************************************************************************)
(* OHLCVRepository.find                                                    *)
(***************************************************************************)

\* Mutant of StoreQuery: the cursor bound is timestamp >= cursor.
StoreQuery_cursor_inclusive(st, tup, start, end, cursor, n) ==
  LET matching == {r \in st : /\ TupleOf(r) = tup
                              /\ (start = None \/ r.timestamp >= start)
                              /\ (end = None \/ r.timestamp <= end)
                              /\ (cursor = None \/ r.timestamp >= cursor)}
  IN  Prefix(Ascending(matching), n)

\* select(OHLCV).where(and_(*conditions)).order_by(timestamp.asc()).limit(n)
StoreQuery(st, tup, start, end, cursor, n) ==
  LET matching == {r \in st : /\ TupleOf(r) = tup
                              /\ (start = None \/ r.timestamp >= start)
                              /\ (end = None \/ r.timestamp <= end)
                              /\ (cursor = None \/ r.timestamp > cursor)}
  IN  Prefix(Ascending(matching), n)

\* Mutant of FindInStore: has_more = len(rows) >= limit.
FindInStore_has_more_early(st, tup, start, end, limit, cursor) ==
  LET rows == StoreQuery(st, tup, start, end, cursor, limit + 1)
      has_more == Len(rows) >= limit
      records == Prefix(rows, limit)
      next_cursor == IF has_more /\ records # <<>>
                     THEN records[Len(records)].timestamp ELSE None
  IN  [kind |-> "ok", records |-> records, next_cursor |-> next_cursor, cached |-> FALSE]

\* The store path of find (lines 160-195): limit + 1 rows, has_more, next_cursor.
\* int(cursor) of the empty string raises ValueError. The database refuses a
\* negative LIMIT (limit < -1); rows[:limit] of the at most one row read with
\* limit <= 0 is empty.
FindInStore(st, tup, start, end, limit, cursor) ==
  LET rows == StoreQuery(st, tup, start, end, cursor, limit + 1)
      has_more == Len(rows) > limit
      records == Prefix(rows, limit)
      next_cursor == IF has_more /\ records # <<>>
                     THEN records[Len(records)].timestamp ELSE None
  IN  IF cursor = EmptyCursor
      THEN [kind |-> "value_error", records |-> <<>>, next_cursor |-> None, cached |-> FALSE]
      ELSE IF limit + 1 < 0
      THEN [kind |-> "db_error", records |-> <<>>, next_cursor |-> None, cached |-> FALSE]
      ELSE [kind |-> "ok", records |-> records, next_cursor |-> next_cursor, cached |-> FALSE]

\* `not cursor` (line 153): None and the empty string.
not_cursor(cursor) == cursor = None \/ cursor = EmptyCursor

\* OHLCVRepository.find; cacheRaises: the Redis read of this call fails.
OHLCVRepository_find(st, ca, tup, start, end, lim, cursor, cacheRaises) ==
  LET limit == Min(lim, MaxLimit)
      tryCache == not_cursor(cursor) /\ limit <= CacheReadLimit
      cached == get_ohlcv(ca, tup, start, end, limit)
  IN  IF tryCache /\ cacheRaises
      THEN [kind |-> "cache_error", records |-> <<>>, next_cursor |-> None, cached |-> FALSE]
      ELSE IF tryCache /\ cached # <<>>
      THEN [kind |-> "ok", records |-> cached, next_cursor |-> None, cached |-> TRUE]
      ELSE FindInStore(st, tup, start, end, limit, cursor)

(***************************************************************************)
(* OHLCVRepository.save inside Database.session                            *)
(***************************************************************************)

\* Mutant of OHLCVRepository_save: a plain INSERT, which the unique
\* constraint refuses when a key of the batch is already in the table.
OHLCVRepository_save_plain_insert(st, ca, records, executeRaises, cacheRaises) ==
  IF records = <<>>
  THEN [kind |-> "ok", ret |-> 0, pending |-> st, cache |-> ca]
  ELSE IF executeRaises \/ HasDuplicateKeys(records)
          \/ \E x \in Range(records), e \in st : Key(x) = Key(e)
  THEN [kind |-> "db_error", ret |-> None, pending |-> st, cache |-> ca]
  ELSE IF cacheRaises
  THEN [kind |-> "cache_error", ret |-> None, pending |-> st \cup Range(records), cache |-> ca]
  ELSE [kind |-> "ok", ret |-> Len(records), pending |-> st \cup Range(records),
        cache |-> cache_ohlcv(ca, records)]

\* OHLCVRepository.save on a session whose view of the table is st.
\* pending: the table as the session sees it after the call (uncommitted).
OHLCVRepository_save(st, ca, records, executeRaises, cacheRaises) ==
  IF records = <<>>
  THEN [kind |-> "ok", ret |-> 0, pending |-> st, cache |-> ca]
  ELSE IF executeRaises \/ HasDuplicateKeys(records)
  THEN [kind |-> "db_error", ret |-> None, pending |-> st, cache |-> ca]
  ELSE IF cacheRaises
  THEN [kind |-> "cache_error", ret |-> None, pending |-> Upsert(st, records), cache |-> ca]
  ELSE [kind |-> "ok", ret |-> Len(records), pending |-> Upsert(st, records),
        cache |-> cache_ohlcv(ca, records)]

\* Mutant of Database_session: the pending writes of a failed block stay.
Database_session_without_rollback(st, r, commitRaises) ==
  IF r.kind = "ok" /\ ~commitRaises
  THEN [kind |-> "ok", ret |-> r.ret, store |-> r.pending, cache |-> r.cache]
  ELSE [kind |-> IF r.kind # "ok" THEN r.kind ELSE "db_error", ret |-> None,
        store |-> r.pending, cache |-> r.cache]

\* Database.session around a block whose outcome is r: commit on normal exit,
\* rollback and re-raise on an exception (of the block or of the commit).
Database_session(st, r, commitRaises) ==
  IF r.kind = "ok" /\ ~commitRaises
  THEN [kind |-> "ok", ret |-> r.ret, store |-> r.pending, cache |-> r.cache]
  ELSE [kind |-> IF r.kind # "ok" THEN r.kind ELSE "db_error", ret |-> None,
        store |-> st, cache |-> r.cache]

\* async with db.session() as session: count = await repo.save(session, records)
SaveInSession(st, ca, records, executeRaises, cacheRaises, commitRaises) ==
  Database_session(st, OHLCVRepository_save(st, ca, records, executeRaises, cacheRaises), commitRaises)

\* Cache.cache_ohlcv, line 109: the call awaits the pipeline only for a
\* batch that is not empty and a cache that is connected; else it returns
\* at once and writes nothing.
writes_cache(connected, records) == connected /\ records # <<>>

\* Database.session, lines 87-90, on leaving a block in which save(records)
\* has returned: the commit makes the rows of the INSERT part of the table
\* as it is by then, or fails and is rolled back.
session_commit(st, ca, records, commitRaises) ==
  Database_session(st, OHLCVRepository_save(st, ca, records, FALSE, FALSE), commitRaises)

\* Database.session, lines 88-90, around a block that has raised: the
\* rollback leaves the table as it was.
session_rollback(st, r) == Database_session(st, r, FALSE).store

\* The batches a caller passes to save: the candles of one tuple.
Batches ==
  UNION {[1..n -> {OHLCV(tup, ts, bar) : ts \in Timestamps, bar \in Bars}] : n \in 0..MaxBatch, tup \in Tuples}

\* History of the committed saves: the record last written under each key.
Written(lw, records) ==
  {w \in lw : \A x \in Range(records) : Key(x) # Key(w)} \cup Range(records)

(***************************************************************************)
(* Specification of the candle repository.                                 *)
(***************************************************************************)

\* A gap-fill task that has been created and has not started.
GapNew ==
  [pc |-> "new", skipped |-> FALSE, now_ms |-> 0, gaps |-> <<>>, gi |-> 0,
   current_start |-> 0, limit |-> 0, records |-> <<>>, wake |-> 0,
   expected |-> {}, existing |-> {}, exact |-> TRUE, storeOk |-> TRUE,
   sessions |-> 0, fetches |-> 0, waiting |-> EmptyBag]

\* The scheduler is not started in this specification.
SchedulerOffAt(t) ==
  /\ now = t
  /\ paused = [e \in Exchanges |-> None]
  /\ cjob = [tup \in CandleJobs |-> [pc |-> "idle", records |-> <<>>]]
  /\ tjob = [e \in TickerJobs |-> [pc |-> "idle"]]
  /\ gap = [GapNew EXCEPT !.pc = "off"]
  /\ tcache = [e \in Exchanges |-> NoTicker]
  /\ rlUntil = [e \in Exchanges |-> None]
  /\ lastFire = [task |-> "none"]
  /\ lastCall = [task |-> "none"]
  /\ tfind = [pc |-> "idle"]

SchedulerOff == SchedulerOffAt(0)

InitRepo ==
  /\ store = {}
  /\ cache = {}
  /\ res = [op |-> "none"]
  /\ lastWrite = {}
  /\ nsaves = 0
  /\ SchedulerOff

\* The response of a save that has ended, r being what its session ended
\* with, over the table st it found.
SaveOutcome(st, records, r, cacheRaised, commitRaised) ==
  [op |-> "save", kind |-> r.kind, ret |-> r.ret, n |-> Len(records),
   cacheRaised |-> cacheRaised, commitRaised |-> commitRaised,
   stored |-> Range(records) \subseteq r.store,
   overwrote |-> \E x \in Range(records), e \in st : Key(x) = Key(e) /\ x # e]

\* A caller (candle job, gap-fill batch) opens a session and calls save:
\* the INSERT is executed in the session (repositories.py, line 107). A
\* failure rolls the session back and ends the call; else the caller, whose
\* position cjob keeps, goes on to the cache write, or to the commit when
\* the batch is empty.
SaveCalled(records, executeRaises) ==
  /\ nsaves < MaxSaves
  /\ cjob[GapTuple].pc = "idle"
  /\ LET r == OHLCVRepository_save(store, cache, records, executeRaises, FALSE)
     IN  /\ store' = IF r.kind = "ok" THEN store ELSE session_rollback(store, r)
         /\ cjob' = IF r.kind # "ok" THEN cjob
                    ELSE [cjob EXCEPT ![GapTuple] =
                            [pc |-> IF writes_cache(TRUE, records) THEN "cache" ELSE "commit",
                             records |-> records]]
  /\ nsaves' = nsaves + 1
  /\ UNCHANGED <<cache, lastWrite, now, paused, tjob, gap, tcache, rlUntil, lastFire, lastCall, tfind>>

\* No response yet: a call is in flight.
NoResponse == [op |-> "none"]

\* The call of save while no read is in flight, and the response of a save
\* whose INSERT fails.
Save ==
  \E records \in Batches, executeRaises \in BOOLEAN :
    /\ tfind.pc = "idle"
    /\ SaveCalled(records, executeRaises)
    /\ res' = IF cjob'[GapTuple].pc # "idle" THEN NoResponse
              ELSE LET r == OHLCVRepository_save(store, cache, records, executeRaises, FALSE)
                   IN  SaveOutcome(store, records, Database_session(store, r, FALSE), FALSE, FALSE)

\* save, line 110: the pipeline of Cache.cache_ohlcv reaches Redis, or
\* fails, which rolls the session back and ends the call.
SaveCachedWith(cacheRaises) ==
  /\ cjob[GapTuple].pc = "cache"
  /\ LET r == OHLCVRepository_save(store, cache, cjob[GapTuple].records, FALSE, cacheRaises)
     IN  /\ cache' = r.cache
         /\ store' = IF r.kind = "ok" THEN store ELSE session_rollback(store, r)
         /\ cjob' = [cjob EXCEPT ![GapTuple] = IF r.kind = "ok" THEN [@ EXCEPT !.pc = "commit"]
                                                ELSE [pc |-> "idle", records |-> <<>>]]
  /\ UNCHANGED <<lastWrite, nsaves, now, paused, tjob, gap, tcache, rlUntil, lastFire, lastCall, tfind>>

\* The cache write, and the response of a save whose cache write fails.
SaveCached ==
  \E cacheRaises \in BOOLEAN :
    /\ SaveCachedWith(cacheRaises)
    /\ res' = IF ~ cacheRaises THEN NoResponse
              ELSE LET r == OHLCVRepository_save(store, cache, cjob[GapTuple].records, FALSE, TRUE)
                   IN  SaveOutcome(store, cjob[GapTuple].records,
                                   Database_session(store, r, FALSE), TRUE, FALSE)

\* The session of the caller commits (database.py, line 87), or the commit
\* fails and is rolled back.
SaveCommittedWith(commitRaises) ==
  /\ cjob[GapTuple].pc = "commit"
  /\ LET r == session_commit(store, cache, cjob[GapTuple].records, commitRaises)
     IN  /\ store' = r.store
         /\ lastWrite' = IF r.kind = "ok" THEN Written(lastWrite, cjob[GapTuple].records)
                         ELSE lastWrite
  /\ cjob' = [cjob EXCEPT ![GapTuple] = [pc |-> "idle", records |-> <<>>]]
  /\ UNCHANGED <<cache, nsaves, now, paused, tjob, gap, tcache, rlUntil, lastFire, lastCall, tfind>>

\* The commit, and the response of the save.
SaveCommitted ==
  \E commitRaises \in BOOLEAN :
    /\ SaveCommittedWith(commitRaises)
    /\ res' = SaveOutcome(store, cjob[GapTuple].records,
                          session_commit(store, cache, cjob[GapTuple].records, commitRaises),
                          FALSE, commitRaises)

Bounds == {None} \cup Timestamps
Limits == 1..(MaxLimit + 1)
\* The limits a caller of find may pass: any integer, also none or fewer.
RequestedLimits == (-2)..(MaxLimit + 1)
\* The start/end/cursor values the read requests of the model carry.
FindBounds == {None, 1}
FindCursors == {None, EmptyCursor, 0, 1}

\* The response of a find that has ended with r.
FindOutcome(r, cacheRaised) ==
  [op |-> "find", kind |-> r.kind, records |-> r.records,
   next_cursor |-> r.next_cursor, cached |-> r.cached, cacheRaised |-> cacheRaised]

\* find awaits the cache before it queries the table: the cache is read,
\* does not fail and gives nothing, and the cursor has an integer value.
AwaitsCache(ca, tup, start, end, lim, cursor, cacheRaises) ==
  /\ not_cursor(cursor) /\ Min(lim, MaxLimit) <= CacheReadLimit
  /\ ~ cacheRaises
  /\ get_ohlcv(ca, tup, start, end, Min(lim, MaxLimit)) = <<>>
  /\ cursor # EmptyCursor

\* A read request: OHLCVRepository.find on a session, up to its first
\* answer: that of the cache when find reads it (lines 153-158), else that
\* of the table (line 183). After a cache read that gave nothing the call
\* goes on to the SELECT.
FindCalled(tup, start, end, limit, cursor, cacheRaises) ==
  /\ tfind.pc = "idle"
  /\ tfind' = IF AwaitsCache(cache, tup, start, end, limit, cursor, cacheRaises)
              THEN [pc |-> "select", tup |-> tup, start |-> start, end |-> end,
                    limit |-> Min(limit, MaxLimit), cursor |-> cursor]
              ELSE tfind
  /\ UNCHANGED <<store, cache, lastWrite, nsaves, now, paused, cjob, tjob, gap, tcache, rlUntil,
                 lastFire, lastCall>>

\* The call of find, and the response of a find that ends with its first
\* answer.
FindWith(tup, start, end, limit, cursor, cacheRaises) ==
  /\ FindCalled(tup, start, end, limit, cursor, cacheRaises)
  /\ res' = IF tfind'.pc = "select" THEN NoResponse
            ELSE FindOutcome(OHLCVRepository_find(store, cache, tup, start, end, limit, cursor, cacheRaises),
                             cacheRaises /\ not_cursor(cursor) /\ Min(limit, MaxLimit) <= CacheReadLimit)

\* A read request while no save is in flight.
Find ==
  /\ cjob[GapTuple].pc = "idle"
  /\ \E tup \in Tuples, start \in FindBounds, end \in FindBounds, limit \in RequestedLimits, cursor \in FindCursors, cacheRaises \in BOOLEAN :
       FindWith(tup, start, end, limit, cursor, cacheRaises)

\* find, lines 160-195: the SELECT is answered from the table as it is by
\* now, and find returns.
FindSelected ==
  /\ tfind.pc = "select"
  /\ res' = FindOutcome(FindInStore(store, tfind.tup, tfind.start, tfind.end, tfind.limit,
                                    tfind.cursor), FALSE)
  /\ tfind' = [pc |-> "idle"]
  /\ UNCHANGED <<store, cache, lastWrite, nsaves, now, paused, cjob, tjob, gap, tcache, rlUntil,
                 lastFire, lastCall>>

NextRepo == Save \/ SaveCached \/ SaveCommitted \/ Find \/ FindSelected

\* The callers of this specification come one at a time; a writer and a
\* reader whose calls overlap are the subject of SpecReadWrite and SpecPage.
SpecRepo == InitRepo /\ [][NextRepo]_vars

(***************************************************************************)
(* Properties of the candle repository.                                    *)
(***************************************************************************)

\* save(xs) committed from the current store, with no fault.
Committed(st, ca, xs) == SaveInSession(st, ca, xs, FALSE, FALSE, FALSE)

\* C3: save is idempotent on the store: from every reachable store and for
\* every batch xs whose save commits, committing save(xs) a second time
\* commits too and leaves the store as the first save left it.
C3_SaveIdempotent ==
  \A xs \in Batches :
    LET once == Committed(store, cache, xs)
        twice == Committed(once.store, once.cache, xs)
    IN  once.kind = "ok" => twice.kind = "ok" /\ twice.store = once.store

\* A committed save has overwritten an existing row, and some batch changes
\* the current store again.
C3_Witness ==
  /\ res.op = "save" /\ res.kind = "ok" /\ res.overwrote
  /\ \E xs \in Batches : Committed(store, cache, xs).kind = "ok"
                         /\ Committed(store, cache, xs).store # store

\* C4: the store holds exactly one row per identity key ever saved, carrying
\* the open/high/low/close/volume of the last committed save that contained
\* the key (rows under other keys are as their own last save left them).
C4_LastWriteWins ==
  /\ store = lastWrite
  /\ \A r1, r2 \in store : Key(r1) = Key(r2) => r1 = r2

\* A committed save replaced the values of an existing row next to another row.
C4_Witness ==
  /\ res.op = "save" /\ res.kind = "ok" /\ res.overwrote
  /\ Cardinality(store) >= 2

\* The rows of the store that a query with these filters must return.
Matching(st, tup, start, end) ==
  {r \in st : /\ TupleOf(r) = tup
              /\ (start = None \/ r.timestamp >= start)
              /\ (end = None \/ r.timestamp <= end)}

RECURSIVE Paginate(_, _, _, _, _, _, _, _)
\* The pages a client collects: find with cursor, then with each next_cursor
\* in turn (same filters and limit) until next_cursor is none. fuel bounds the
\* number of requests.
Paginate(st, ca, tup, start, end, limit, cursor, fuel) ==
  LET r == OHLCVRepository_find(st, ca, tup, start, end, limit, cursor, FALSE)
  IN  IF r.next_cursor = None \/ fuel = 0 THEN r.records
      ELSE r.records \o Paginate(st, ca, tup, start, end, limit, r.next_cursor, fuel - 1)

MaxPages == MaxTs + 2

\* C5 as claimed: for every limit in [1, MaxLimit], following next_cursor from
\* cursor = none yields the complete ascending list of matching store rows.
C5_PaginationCoversAll ==
  \A tup \in Tuples, start \in Bounds, end \in Bounds, limit \in 1..MaxLimit :
    Paginate(store, cache, tup, start, end, limit, None, MaxPages)
      = Ascending(Matching(store, tup, start, end))

\* C5 amended: the pages cover the full result whenever the first request is
\* answered by the store (limit above the cache threshold, or no cached
\* record matches the first request).
C5_PaginationCoversAllFromStore ==
  \A tup \in Tuples, start \in Bounds, end \in Bounds, limit \in 1..MaxLimit :
    ~ OHLCVRepository_find(store, cache, tup, start, end, limit, None, FALSE).cached
      => Paginate(store, cache, tup, start, end, limit, None, MaxPages)
           = Ascending(Matching(store, tup, start, end))

\* A pagination that starts in the store and needs more than one page.
C5_Witness ==
  \E tup \in Tuples, limit \in 1..MaxLimit :
    LET r == OHLCVRepository_find(store, cache, tup, None, None, limit, None, FALSE)
    IN  ~ r.cached /\ r.next_cursor # None /\ Len(r.records) = limit

\* C7: on the store path, find returns the first `limit` (clamped) matching
\* rows in strictly ascending timestamp order, and next_cursor is the last
\* returned timestamp exactly when a further matching row exists.
C7_StorePathPage ==
  \A tup \in Tuples, start \in Bounds, end \in Bounds, cursor \in Bounds, lim \in Limits :
    LET r == OHLCVRepository_find(store, cache, tup, start, end, lim, cursor, FALSE)
        limit == Min(lim, MaxLimit)
        M == {m \in Matching(store, tup, start, end) : cursor = None \/ m.timestamp > cursor}
        got == Range(r.records)
    IN  ~ r.cached =>
          /\ r.kind = "ok"
          /\ got \subseteq M
          /\ Len(r.records) = Min(limit, Cardinality(M))
          /\ \A i, j \in DOMAIN r.records :
               i < j => r.records[i].timestamp < r.records[j].timestamp
          /\ \A x \in got, m \in M \ got : x.timestamp < m.timestamp
          /\ r.next_cursor = IF Cardinality(M) > limit
                             THEN r.records[Len(r.records)].timestamp ELSE None

\* A store-path page that is cut at the limit and carries a cursor, asked with
\* a cursor itself.
C7_Witness ==
  \E tup \in Tuples, cursor \in Timestamps :
    LET r == OHLCVRepository_find(store, cache, tup, None, None, 1, cursor, FALSE)
    IN  ~ r.cached /\ r.next_cursor # None /\ r.records # <<>>

\* C8 as claimed: a find whose cache read raised still returns the store's
\* result with cached = false.
C8_CacheErrorNeverFailsRead ==
  (res.op = "find" /\ res.cacheRaised) => (res.kind = "ok" /\ ~ res.cached)

\* C9 as claimed: a save whose cache write raised still commits the batch to
\* the store and returns the number of records.
C9_CacheErrorNeverFailsSave ==
  (res.op = "save" /\ res.cacheRaised) => (res.kind = "ok" /\ res.stored /\ res.ret = res.n)

(***************************************************************************)
(* CollectionScheduler: the pause gate.                                    *)
(***************************************************************************)

\* Mutant of is_paused: the gate opens one second before resume time.
is_paused_one_early(pm, exchange, t) ==
  pm[exchange] # None /\ t + 1 < pm[exchange]

\* CollectionScheduler._is_paused, the value returned at time t.
is_paused(pm, exchange, t) ==
  pm[exchange] # None /\ t < pm[exchange]

\* Mutant of is_paused_cleanup: the gate never deletes an entry.
is_paused_cleanup_never(pm, exchange, t) == pm

\* CollectionScheduler._is_paused, its effect on the map: an entry whose time
\* has passed is deleted.
is_paused_cleanup(pm, exchange, t) ==
  IF pm[exchange] # None /\ ~ is_paused(pm, exchange, t)
  THEN [pm EXCEPT ![exchange] = None] ELSE pm

\* Mutant of pause_exchange: every exchange is paused.
\* Alternative: the entry written is already over.
pause_exchange_expired(pm, exchange, duration, t) ==
  [pm EXCEPT ![exchange] = t]

pause_exchange_all(pm, exchange, duration, t) ==
  [e \in DOMAIN pm |-> t + duration]

\* CollectionScheduler._pause_exchange at time t.
pause_exchange(pm, exchange, duration, t) ==
  [pm EXCEPT ![exchange] = t + duration]

\* CollectionScheduler.resume_exchange: the entry of the exchange is deleted.
resume_exchange(pm, exchange) ==
  IF pm[exchange] # None THEN [pm EXCEPT ![exchange] = None] ELSE pm

\* CollectionScheduler.get_paused_exchanges at time t: the map is replaced by
\* its entries with ts > t, and a copy of it is returned.
get_paused_exchanges(pm, t) ==
  [e \in DOMAIN pm |-> IF pm[e] # None /\ pm[e] > t THEN pm[e] ELSE None]

\* History of the RateLimited signals: the latest t + retry_after per exchange.
Observed(rl, exchange, duration, t) ==
  [rl EXCEPT ![exchange] = IF @ = None \/ @ < t + duration THEN t + duration ELSE @]

(***************************************************************************)
(* Gap-fill planning (lines 247-329 of scheduler.py).                      *)
(***************************************************************************)

target_start_ms(t) == t - GapWindow
aligned_start(t) == (target_start_ms(t) \div timeframe_ms) * timeframe_ms

\* expected_timestamps: aligned_start, aligned_start + delta, ... <= now.
expected_timestamps(t) ==
  {ts \in aligned_start(t)..t : (ts - aligned_start(t)) % timeframe_ms = 0}

\* existing_timestamps: select timestamp where tuple and timestamp >= target_start_ms.
existing_timestamps(st, tup, t) ==
  {r.timestamp : r \in {x \in st : TupleOf(x) = tup /\ x.timestamp >= target_start_ms(t)}}

RECURSIVE SortedInts(_)
SortedInts(S) ==
  IF S = {} THEN <<>>
  ELSE LET lo == CHOOSE x \in S : \A y \in S : x <= y
       IN  <<lo>> \o SortedInts(S \ {lo})

\* missing_timestamps = sorted(expected_timestamps - existing_timestamps)
missing_timestamps(expected, existing) == SortedInts(expected \ existing)

RECURSIVE GroupRuns(_, _, _, _, _)
\* The for loop of lines 318-326 from index i on, with the current interval.
GroupRuns(missing, i, gap_start, gap_end, gaps) ==
  IF i > Len(missing) THEN Append(gaps, <<gap_start, gap_end>>)
  ELSE IF missing[i] = gap_end + timeframe_ms
  THEN GroupRuns(missing, i + 1, gap_start, missing[i], gaps)
  ELSE GroupRuns(missing, i + 1, missing[i], missing[i], Append(gaps, <<gap_start, gap_end>>))

\* Mutant of Gaps: one interval from the first to the last missing timestamp.
Gaps_single_run(missing) ==
  IF missing = <<>> THEN <<>> ELSE <<(<<missing[1], missing[Len(missing)]>>)>>

\* gaps: the missing timestamps grouped into contiguous intervals.
Gaps(missing) ==
  IF missing = <<>> THEN <<>>
  ELSE GroupRuns(missing, 2, missing[1], missing[1], <<>>)

(***************************************************************************)
(* The exchange adapter as the scheduler sees it.                          *)
(***************************************************************************)

\* fetch_ohlcv(symbol, timeframe, since, limit) answered with n candles from
\* since on, one interval apart.
CandlesFrom(tup, since, n, bar) ==
  [i \in 1..n |-> OHLCV(tup, since + (i - 1) * timeframe_ms, bar)]

\* fetch_ohlcv(symbol, timeframe, limit=TailSize) at time t: the last candles.
TailCandles(tup, t, bar) ==
  LET last == (t \div timeframe_ms) * timeframe_ms
      first == last - (TailSize - 1) * timeframe_ms
  IN  CandlesFrom(tup, first, TailSize, bar)

\* The scheduler's tuples and jobs (CollectionScheduler.start).
\* The values the venue answers with in the scheduler specification.
FetchedBars == {CHOOSE b \in Bars : b.close = 1}
FetchedLasts == {1}
\* The venue's ticker carries the venue's own timestamp, one tick old.
FetchedLags == {1}

\* History record of an adapter call issued at time t under pause map pm.
Call(task, exchange, pm, t) ==
  [task |-> "call", exchange |-> exchange, whilePaused |-> is_paused(pm, exchange, t)]

\* History record of a job fire at time t: skipped at the gate or not, and
\* whether t lies within retry_after of an observed RateLimited.
Fire(task, exchange, rl, t, skipped) ==
  [task |-> "fire", exchange |-> exchange, skipped |-> skipped,
   due |-> rl[exchange] # None /\ t < rl[exchange]]

(***************************************************************************)
(* Specification of the scheduler: candle jobs, ticker jobs, one gap-fill  *)
(* task, and the clock. Each action is one stretch of a coroutine between  *)
(* two awaits.                                                             *)
(***************************************************************************)

StartTime == GapWindow + 1

\* The candles already in the table when the scheduler starts.
StoresOf(sets) ==
  {{OHLCV(GapTuple, ts, bar) : ts \in S, bar \in FetchedBars} : S \in sets}

InitStores == StoresOf({{0, 2 * timeframe_ms}})

\* The state after CollectionScheduler.start, with one of the given tables.
InitWith(stores) ==
  /\ store \in stores
  /\ cache = {}
  /\ res = [op |-> "none"]
  /\ lastWrite = store
  /\ nsaves = 0
  /\ now = StartTime
  /\ paused = [e \in Exchanges |-> None]
  /\ cjob = [tup \in CandleJobs |-> [pc |-> "idle", records |-> <<>>]]
  /\ tjob = [e \in TickerJobs |-> [pc |-> "idle"]]
  /\ gap = GapNew
  /\ tcache = [e \in Exchanges |-> NoTicker]
  /\ rlUntil = [e \in Exchanges |-> None]
  /\ lastFire = [task |-> "none"]
  /\ lastCall = [task |-> "none"]
  /\ tfind = [pc |-> "idle"]

Init == InitWith(InitStores)

\* time passes
Tick ==
  /\ now < MaxTime
  /\ now' = now + 1
  /\ UNCHANGED <<repoVars, paused, cjob, tjob, gap, tcache, rlUntil, lastFire, lastCall, tfind>>

----
\* _collect_ohlcv, lines 152-176: the pause gate, then the adapter call.
CollectOhlcvFire(tup) ==
  /\ cjob[tup].pc = "idle"
  /\ IF is_paused(paused, tup[1], now)
     THEN /\ lastFire' = Fire("candle", tup[1], rlUntil, now, TRUE)
          /\ UNCHANGED <<paused, cjob, lastCall>>
     ELSE /\ paused' = is_paused_cleanup(paused, tup[1], now)
          /\ cjob' = [cjob EXCEPT ![tup].pc = "fetch"]
          /\ lastFire' = Fire("candle", tup[1], rlUntil, now, FALSE)
          /\ lastCall' = Call("candle", tup[1], paused', now)
  /\ UNCHANGED <<repoVars, now, tjob, gap, tcache, rlUntil, tfind>>

\* _collect_ohlcv, line 176 and the handlers of lines 190-202: the adapter answers.
CollectOhlcvOutcome(tup, outcome, bar) ==
  /\ cjob[tup].pc = "fetch"
  /\ CASE outcome = "records" ->
            /\ cjob' = [cjob EXCEPT ![tup] = [pc |-> "save", records |-> TailCandles(tup, now, bar)]]
            /\ UNCHANGED <<paused, rlUntil>>
       [] outcome = "rate_limit" ->
            /\ paused' = pause_exchange(paused, tup[1], RetryAfter, now)
            /\ rlUntil' = Observed(rlUntil, tup[1], RetryAfter, now)
            /\ cjob' = [cjob EXCEPT ![tup].pc = "idle"]
       [] outcome = "error" ->
            /\ cjob' = [cjob EXCEPT ![tup].pc = "idle"]
            /\ UNCHANGED <<paused, rlUntil>>
  /\ UNCHANGED <<store, cache, lastWrite, nsaves, now, tjob, gap, tcache, lastFire, lastCall, tfind>>

\* The adapter answers the candle job: candles with one of the bars, or
\* a failure.
CollectOhlcvAnswered(tup, bars) ==
  \E outcome \in {"records", "rate_limit", "error"}, bar \in bars :
    CollectOhlcvOutcome(tup, outcome, bar)

\* The adapter answers the candle job with the values of the scheduler
\* specification.
CollectOhlcvFetched(tup) == CollectOhlcvAnswered(tup, FetchedBars) /\ UNCHANGED res

\* The batches whose INSERT has been executed in a session that has not
\* ended yet.
Uncommitted ==
  {cjob[tup].records : tup \in {t \in CandleJobs : cjob[t].pc \in {"cache", "commit"}}}
    \cup (IF gap.pc \in {"cache", "commit"} THEN {gap.records} ELSE {})
    \cup {task.records : task \in {t \in BagToSet(gap.waiting) : t.pc \in {"cache", "commit"}}}

\* INSERT ... ON CONFLICT DO UPDATE (repositories.py, lines 96-107): the
\* database keeps the rows a session has written locked until the session
\* ends, and the INSERT of another session that touches one of them waits.
RowsFree(records) ==
  \A b \in Uncommitted : \A x \in Range(records), y \in Range(b) : Key(x) # Key(y)

\* _collect_ohlcv, line 180, inside the session of line 179: the INSERT of
\* ohlcv_repo.save is executed (repositories.py, line 107). A failure rolls
\* the session back and is logged (lines 194-202).
CollectOhlcvExecuted(tup) ==
  /\ cjob[tup].pc = "save"
  /\ \E executeRaises \in BOOLEAN :
       LET r == OHLCVRepository_save(store, cache, cjob[tup].records, executeRaises, FALSE)
       IN  /\ executeRaises \/ RowsFree(cjob[tup].records)
           /\ store' = IF r.kind = "ok" THEN store ELSE session_rollback(store, r)
           /\ cjob' = [cjob EXCEPT ![tup] =
                         IF r.kind # "ok" THEN [pc |-> "idle", records |-> <<>>]
                         ELSE IF writes_cache(TRUE, @.records) THEN [@ EXCEPT !.pc = "cache"]
                         ELSE [@ EXCEPT !.pc = "commit"]]
  /\ UNCHANGED <<cache, lastWrite, nsaves, now, paused, tjob, gap, tcache, rlUntil, lastFire, lastCall, tfind>>

CollectOhlcvExecute(tup) == CollectOhlcvExecuted(tup) /\ UNCHANGED res

\* ohlcv_repo.save, line 110: the pipeline of Cache.cache_ohlcv reaches
\* Redis, or fails, which rolls the session back and is logged.
CollectOhlcvCached(tup) ==
  /\ cjob[tup].pc = "cache"
  /\ \E cacheRaises \in BOOLEAN :
       LET r == OHLCVRepository_save(store, cache, cjob[tup].records, FALSE, cacheRaises)
       IN  /\ cache' = r.cache
           /\ store' = IF r.kind = "ok" THEN store ELSE session_rollback(store, r)
           /\ cjob' = [cjob EXCEPT ![tup] = IF r.kind = "ok" THEN [@ EXCEPT !.pc = "commit"]
                                             ELSE [pc |-> "idle", records |-> <<>>]]
  /\ UNCHANGED <<lastWrite, nsaves, now, paused, tjob, gap, tcache, rlUntil, lastFire, lastCall, tfind>>

CollectOhlcvCache(tup) == CollectOhlcvCached(tup) /\ UNCHANGED res

\* _collect_ohlcv, the end of the block of line 179: the session commits
\* (database.py, line 87); a failing commit is rolled back and logged.
CollectOhlcvCommitted(tup) ==
  /\ cjob[tup].pc = "commit"
  /\ \E commitRaises \in BOOLEAN :
       LET r == session_commit(store, cache, cjob[tup].records, commitRaises)
       IN  /\ store' = r.store
           /\ lastWrite' = IF r.kind = "ok" THEN Written(lastWrite, cjob[tup].records) ELSE lastWrite
  /\ cjob' = [cjob EXCEPT ![tup] = [pc |-> "idle", records |-> <<>>]]
  /\ UNCHANGED <<cache, nsaves, now, paused, tjob, gap, tcache, rlUntil, lastFire, lastCall, tfind>>

CollectOhlcvCommit(tup) == CollectOhlcvCommitted(tup) /\ UNCHANGED res

----
\* Cache.cache_ticker: setex(key, ticker_ttl, json) at time t.
cache_ticker(tc, exchange, last, timestamp, t) ==
  [tc EXCEPT ![exchange] = [last |-> last, timestamp |-> timestamp, expires |-> t + ticker_ttl]]

\* _collect_ticker, lines 477-499: the pause gate, then the adapter call.
CollectTickerFire(e) ==
  /\ tjob[e].pc = "idle"
  /\ IF is_paused(paused, e, now)
     THEN /\ lastFire' = Fire("ticker", e, rlUntil, now, TRUE)
          /\ UNCHANGED <<paused, tjob, lastCall>>
     ELSE /\ paused' = is_paused_cleanup(paused, e, now)
          /\ tjob' = [tjob EXCEPT ![e].pc = "fetch"]
          /\ lastFire' = Fire("ticker", e, rlUntil, now, FALSE)
          /\ lastCall' = Call("ticker", e, paused', now)
  /\ UNCHANGED <<repoVars, now, cjob, gap, tcache, rlUntil, tfind>>

\* How far the venue's own timestamp of a ticker lies behind the time of
\* the answer (data["timestamp"], or the time of the answer when absent).
VenueLags == {0, 1}

\* infrastructure/exchange.py fetch_ticker, lines 212-216: the timestamp of
\* the ticker built from an answer that comes in at time t is the venue's
\* own, or t when the venue gives none.
venue_timestamp(lag, t) == t - lag

\* _collect_ticker, lines 499 and 511-522: the adapter answers with a ticker,
\* which carries the venue's timestamp and which the job goes on to save,
\* or with a failure.
CollectTickerAnswered(e, outcome, last, lag) ==
  /\ tjob[e].pc = "fetch"
  /\ CASE outcome = "ticker" ->
            /\ tjob' = [tjob EXCEPT ![e] = [pc |-> "cache", last |-> last,
                                            timestamp |-> venue_timestamp(lag, now)]]
            /\ UNCHANGED <<paused, rlUntil>>
       [] outcome = "rate_limit" ->
            /\ paused' = pause_exchange(paused, e, RetryAfter, now)
            /\ rlUntil' = Observed(rlUntil, e, RetryAfter, now)
            /\ tjob' = [tjob EXCEPT ![e] = [pc |-> "idle"]]
       [] outcome = "error" ->
            /\ tjob' = [tjob EXCEPT ![e] = [pc |-> "idle"]]
            /\ UNCHANGED <<paused, rlUntil>>
  /\ UNCHANGED <<store, cache, res, nsaves, now, cjob, gap, tcache, lastFire, lastCall, tfind>>

\* The adapter answers the ticker job with the values of the scheduler
\* specification.
CollectTickerFetched(e) ==
  /\ \E outcome \in {"ticker", "rate_limit", "error"}, last \in FetchedLasts, lag \in FetchedLags :
       CollectTickerAnswered(e, outcome, last, lag)
  /\ UNCHANGED lastWrite

\* _collect_ticker, line 502: ticker_repo.save; the SETEX of
\* Cache.cache_ticker reaches Redis, or fails, which is logged.
CollectTickerCached(e, cacheRaises) ==
  /\ tjob[e].pc = "cache"
  /\ tcache' = IF cacheRaises THEN tcache
               ELSE cache_ticker(tcache, e, tjob[e].last, tjob[e].timestamp, now)
  /\ tjob' = [tjob EXCEPT ![e] = [pc |-> "idle"]]
  /\ UNCHANGED <<store, cache, res, nsaves, now, paused, cjob, gap, rlUntil, lastFire, lastCall, tfind>>

CollectTickerSaved(e) ==
  /\ \E cacheRaises \in BOOLEAN : CollectTickerCached(e, cacheRaises)
  /\ UNCHANGED lastWrite

----
\* The adapter calls counted within one interval, for the history.
MaxFetches == 5

\* Alternative: the next batch starts at the first record of this one.
next_start_first(records) == records[1].timestamp

\* current_start = records[-1].timestamp + timeframe_ms, line 391.
next_start(records) == records[Len(records)].timestamp + timeframe_ms

\* async with self.db.session(): the task enters a store session.
session_open(g) == [g EXCEPT !.sessions = @ + 1]

\* Alternative: the session stays open when the block is left.
session_exit_never(g) == g

\* The end of an async with self.db.session() block, left normally or by an
\* exception: the session is committed or rolled back, and closed.
session_exit(g) == [g EXCEPT !.sessions = @ - 1]

\* Alternative: every call asks for a whole batch.
IssueFetch_full_batch(g, start) ==
  [g EXCEPT !.pc = "fetch", !.current_start = start, !.limit = batch_size,
            !.fetches = Min(@ + 1, MaxFetches)]

\* The adapter call of the batch loop, lines 361-373, for the current interval.
IssueFetch(g, start) ==
  [g EXCEPT !.pc = "fetch", !.current_start = start,
            !.limit = Min(batch_size, ((g.gaps[g.gi][2] - start) \div timeframe_ms) + 1),
            !.fetches = Min(@ + 1, MaxFetches)]

\* Alternative: leaving an interval ends the task.
NextInterval_end(g) ==
  IF g.gi = 0 /\ Len(g.gaps) > 0
  THEN IssueFetch([g EXCEPT !.gi = 1, !.fetches = 0], g.gaps[1][1])
  ELSE [g EXCEPT !.pc = "done"]

\* Leaving the while loop of an interval (break, or current_start > gap_end):
\* the for loop goes to the next interval and calls the adapter, or ends.
NextInterval(g) ==
  IF g.gi < Len(g.gaps)
  THEN IssueFetch([g EXCEPT !.gi = g.gi + 1, !.fetches = 0], g.gaps[g.gi + 1][1])
  ELSE [g EXCEPT !.pc = "done"]

\* The steps of the shutdown part of lifespan, in order.
Phases == <<"running", "stopped", "clients_closed", "cache_closed", "disposed">>
PhaseNo(p) == CHOOSE i \in DOMAIN Phases : Phases[i] = p

\* ExchangeClient._client is set: a client is connected from the start of
\* the application to its disconnect() in the shutdown part of lifespan.
ClientConnected ==
  res.op = "lifespan" => PhaseNo(res.phase) < PhaseNo("clients_closed")

RECURSIVE FetchUnconnected(_)
\* fetch_ohlcv of a client that is not connected raises ServerError before
\* any await (exchange.py, lines 135-140): the batch loop leaves the
\* interval (scheduler.py, lines 413-424), and the first fetch of the next
\* interval ends the same way, down to the last interval.
FetchUnconnected(g) ==
  IF g.pc = "fetch" THEN FetchUnconnected(NextInterval([g EXCEPT !.exact = FALSE])) ELSE g

\* The task after the stretch that ends in g: a fetch it issues is awaited
\* when the client is connected, and has failed at once when it is not.
Issued(g) == IF ClientConnected THEN g ELSE FetchUnconnected(g)

\* What a step of the gap-fill task leaves in the history of adapter calls.
GapCall(g) ==
  IF g.pc = "fetch" THEN Call("gap", GapTuple[1], paused', now) ELSE lastCall

\* _fill_ohlcv_gap, lines 224-256: the pause gate, the window, the session.
GapStart ==
  /\ gap.pc = "new"
  /\ IF is_paused(paused, GapTuple[1], now)
     THEN /\ gap' = [gap EXCEPT !.pc = "done", !.skipped = TRUE]
          /\ lastFire' = Fire("gap", GapTuple[1], rlUntil, now, TRUE)
          /\ UNCHANGED paused
     ELSE /\ paused' = is_paused_cleanup(paused, GapTuple[1], now)
          /\ gap' = session_open([gap EXCEPT !.pc = "query", !.now_ms = now,
                                                  !.expected = expected_timestamps(now)])
          /\ lastFire' = Fire("gap", GapTuple[1], rlUntil, now, FALSE)
  /\ UNCHANGED <<repoVars, now, cjob, tjob, tcache, rlUntil, lastCall, tfind>>

\* _fill_ohlcv_gap, lines 271-272: the SELECT is answered with the
\* timestamps present by then, or fails, which ends the task (lines 458-466).
GapQueried ==
  /\ gap.pc = "query"
  /\ \E queryRaises \in BOOLEAN :
       gap' = IF queryRaises
              THEN session_exit([gap EXCEPT !.pc = "done", !.storeOk = FALSE])
              ELSE [gap EXCEPT !.pc = "plan",
                               !.existing = existing_timestamps(store, GapTuple, gap.now_ms)]
  /\ UNCHANGED <<repoVars, now, paused, cjob, tjob, tcache, rlUntil, lastFire, lastCall, tfind>>

\* _fill_ohlcv_gap, lines 272-373: the query session commits and closes;
\* the intervals are planned from the timestamps read and the first
\* adapter call is made. A failing commit ends the task.
GapPlanned ==
  /\ gap.pc = "plan"
  /\ \E commitRaises \in BOOLEAN :
       LET missing == missing_timestamps(gap.expected, gap.existing)
           g == [gap EXCEPT !.gaps = Gaps(missing), !.gi = 0]
       IN  gap' = IF commitRaises THEN session_exit([gap EXCEPT !.pc = "done", !.storeOk = FALSE])
                  ELSE Issued(NextInterval(session_exit(g)))
  /\ paused' = paused
  /\ lastCall' = GapCall(gap')
  /\ UNCHANGED <<repoVars, now, cjob, tjob, tcache, rlUntil, lastFire, tfind>>

\* _fill_ohlcv_gap, lines 368-383 and 400-424: the adapter answers a batch
\* with records (none, when the list is empty), RateLimitError or another error.
GapAnsweredWith(outcome, records) ==
  /\ gap.pc = "fetch"
  /\ CASE outcome = "records" /\ records # <<>> ->
            /\ gap' = session_open([gap EXCEPT !.pc = "save", !.records = records,
                         !.exact = @ /\ \E bar \in Bars :
                                          records = CandlesFrom(GapTuple, gap.current_start, gap.limit, bar)])
            /\ UNCHANGED <<paused, rlUntil>>
       [] outcome = "records" /\ records = <<>> ->
            /\ gap' = Issued(NextInterval([gap EXCEPT !.exact = FALSE]))
            /\ UNCHANGED <<paused, rlUntil>>
       [] outcome = "rate_limit" ->
            /\ paused' = pause_exchange(paused, GapTuple[1], RetryAfter, now)
            /\ rlUntil' = Observed(rlUntil, GapTuple[1], RetryAfter, now)
            /\ gap' = [gap EXCEPT !.pc = "done", !.exact = FALSE]
       [] outcome = "error" ->
            /\ gap' = Issued(NextInterval([gap EXCEPT !.exact = FALSE]))
            /\ UNCHANGED <<paused, rlUntil>>
  /\ lastCall' = GapCall(gap')
  /\ UNCHANGED <<store, cache, lastWrite, nsaves, now, cjob, tjob, tcache, lastFire, tfind>>

\* The venue answers with the limit candles asked for ("exact"), with one
\* candle fewer but at least one ("short"), with none, or with a failure.
GapAnswered(bars) ==
  \E outcome \in {"exact", "short", "empty", "rate_limit", "error"}, bar \in bars :
    /\ outcome = "short" => gap.limit > 1
    /\ GapAnsweredWith(
         IF outcome \in {"exact", "short", "empty"} THEN "records" ELSE outcome,
         CASE outcome = "exact" -> CandlesFrom(GapTuple, gap.current_start, gap.limit, bar)
           [] outcome = "short" -> CandlesFrom(GapTuple, gap.current_start, gap.limit - 1, bar)
           [] OTHER -> <<>>)

\* The adapter answers the gap-fill task with the values of the scheduler
\* specification.
GapFetched == GapAnswered(FetchedBars) /\ UNCHANGED res

\* _fill_ohlcv_gap, line 387 inside the session of line 386: the INSERT
\* of ohlcv_repo.save is executed (repositories.py, line 107); a failure
\* rolls back and leaves the interval (lines 413-424). With the cache
\* disconnected save returns without a cache write.
GapExecutedWith(connected, executeRaises) ==
  /\ gap.pc = "save"
  /\ executeRaises \/ RowsFree(gap.records)
  /\ LET r == OHLCVRepository_save(store, cache, gap.records, executeRaises, FALSE)
     IN  /\ store' = IF r.kind = "ok" THEN store ELSE session_rollback(store, r)
         /\ gap' = IF r.kind # "ok"
                   THEN Issued(NextInterval(session_exit([gap EXCEPT !.records = <<>>, !.storeOk = FALSE])))
                   ELSE IF writes_cache(connected, gap.records) THEN [gap EXCEPT !.pc = "cache"]
                   ELSE [gap EXCEPT !.pc = "commit"]
  /\ paused' = paused
  /\ lastCall' = GapCall(gap')
  /\ UNCHANGED <<cache, lastWrite, nsaves, now, cjob, tjob, tcache, rlUntil, lastFire, tfind>>

\* The INSERT of a batch, succeeding or failing.
GapExecutedAt(connected) == \E executeRaises \in BOOLEAN : GapExecutedWith(connected, executeRaises)

\* The INSERT of a batch while the cache is connected.
GapExecuted == GapExecutedAt(TRUE)

GapExecute == GapExecuted /\ UNCHANGED res

\* ohlcv_repo.save, line 110: the pipeline of Cache.cache_ohlcv reaches
\* Redis, or fails, which rolls back and leaves the interval.
GapCachedWith(cacheRaises) ==
  /\ gap.pc = "cache"
  /\ LET r == OHLCVRepository_save(store, cache, gap.records, FALSE, cacheRaises)
     IN  /\ cache' = r.cache
         /\ store' = IF r.kind = "ok" THEN store ELSE session_rollback(store, r)
         /\ gap' = IF r.kind # "ok"
                   THEN Issued(NextInterval(session_exit([gap EXCEPT !.records = <<>>, !.storeOk = FALSE])))
                   ELSE [gap EXCEPT !.pc = "commit"]
  /\ paused' = paused
  /\ lastCall' = GapCall(gap')
  /\ UNCHANGED <<lastWrite, nsaves, now, cjob, tjob, tcache, rlUntil, lastFire, tfind>>

GapCached == \E cacheRaises \in BOOLEAN : GapCachedWith(cacheRaises)

GapCache == GapCached /\ UNCHANGED res

\* _fill_ohlcv_gap, the end of the block of line 386 and lines 390-398:
\* the session commits; then the task sleeps, or leaves the interval on a
\* short batch or on a failed commit.
GapCommittedWith(commitRaises) ==
  /\ gap.pc = "commit"
  /\ LET r == session_commit(store, cache, gap.records, commitRaises)
         g == session_exit([gap EXCEPT !.records = <<>>,
                                       !.current_start = next_start(gap.records)])
     IN  /\ store' = r.store
         /\ lastWrite' = IF r.kind = "ok" THEN Written(lastWrite, gap.records) ELSE lastWrite
         /\ gap' = IF r.kind # "ok"
                   THEN Issued(NextInterval(session_exit([gap EXCEPT !.records = <<>>, !.storeOk = FALSE])))
                   ELSE IF Len(gap.records) < gap.limit THEN Issued(NextInterval(g))
                   ELSE [g EXCEPT !.pc = "sleep", !.wake = now + BatchSleep]
  /\ paused' = paused
  /\ lastCall' = GapCall(gap')
  /\ UNCHANGED <<cache, nsaves, now, cjob, tjob, tcache, rlUntil, lastFire, tfind>>

GapCommitted == \E commitRaises \in BOOLEAN : GapCommittedWith(commitRaises)

GapCommit == GapCommitted /\ UNCHANGED res

\* _fill_ohlcv_gap, lines 398 and 361: the sleep is over; the while condition.
GapWoke ==
  /\ gap.pc = "sleep"
  /\ now >= gap.wake
  /\ gap' = IF gap.current_start <= gap.gaps[gap.gi][2]
            THEN Issued(IssueFetch(gap, gap.current_start))
            ELSE Issued(NextInterval(gap))
  /\ paused' = paused
  /\ lastCall' = GapCall(gap')
  /\ UNCHANGED <<repoVars, now, cjob, tjob, tcache, rlUntil, lastFire, tfind>>

Next ==
  \/ Tick
  \/ \E tup \in CandleJobs : CollectOhlcvFire(tup)
  \/ \E tup \in CandleJobs : CollectOhlcvFetched(tup)
  \/ \E tup \in CandleJobs : CollectOhlcvExecute(tup)
  \/ \E tup \in CandleJobs : CollectOhlcvCache(tup)
  \/ \E tup \in CandleJobs : CollectOhlcvCommit(tup)
  \/ \E e \in TickerJobs : CollectTickerFire(e)
  \/ \E e \in TickerJobs : CollectTickerFetched(e)
  \/ \E e \in TickerJobs : CollectTickerSaved(e)
  \/ GapStart
  \/ GapQueried
  \/ GapPlanned
  \/ GapFetched
  \/ GapExecute
  \/ GapCache
  \/ GapCommit
  \/ GapWoke

Spec == Init /\ [][Next]_vars

(***************************************************************************)
(* Properties of the scheduler.                                            *)
(***************************************************************************)

\* Time now lies in [t, t + retry_after) of a RateLimited observed at t for e.
WithinRetryAfter(e) == rlUntil[e] # None /\ now < rlUntil[e]

\* C1: after a background task observed RateLimited with retry_after r for an
\* exchange at time t, every candle job and ticker job of the exchange that
\* fires in [t, t + r) returns at the gate without calling the adapter (it
\* stays idle), and a gap-fill task that starts in [t, t + r) returns at the
\* gate (it never reaches its query or its batch loop).
C1_FiresWithinRetryAfterSkip ==
  [][\A e \in Exchanges :
       WithinRetryAfter(e) =>
         /\ \A tup \in CandleJobs :
              (tup[1] = e /\ cjob[tup].pc = "idle") => cjob'[tup].pc = "idle"
         /\ \A j \in TickerJobs :
              (j = e /\ tjob[j].pc = "idle") => tjob'[j].pc = "idle"
         /\ (GapTuple[1] = e /\ gap.pc = "new") =>
              (gap'.pc \in {"new", "done"} /\ (gap'.pc = "done" => gap'.skipped))]_vars

\* A job fired in the last second of the pause window and was skipped.
C1_Witness ==
  /\ lastFire.task = "fire" /\ lastFire.due /\ lastFire.skipped
  /\ rlUntil[lastFire.exchange] = now + 1
  /\ \A tup \in CandleJobs : cjob[tup].pc = "idle"

\* C2 as claimed: no background task issues an adapter call for an exchange
\* while the pause of that exchange is active; in particular a gap-fill task
\* that is inside its batch loop issues no fetch until the pause expires.
C2_NoCallWhilePaused ==
  lastCall.task = "call" => ~ lastCall.whilePaused

\* The timestamps of the tuple's rows in the store.
present(st, tup) == {r.timestamp : r \in {x \in st : TupleOf(x) = tup}}

\* The gap-fill task has run to its end without being stopped at the gate,
\* and every fetch was answered with exactly the candles asked for.
GapCompletedExact == gap.pc = "done" /\ ~ gap.skipped /\ gap.exact

\* C6 as claimed: if the exchange is not paused and every fetch returns
\* exactly the requested candles, then on completion every expected
\* timestamp of the window is present in the store.
C6_GapFillPostCondition ==
  GapCompletedExact => gap.expected \subseteq present(store, GapTuple)

(***************************************************************************)
(* TickerRepository.find (repositories.py, lines 241-286): cache first,    *)
(* exchange on a miss, write-back. The call is two stretches: up to the    *)
(* adapter call, and from the adapter's answer on.                         *)
(***************************************************************************)

\* The last prices the venue answers with.
TickerLasts == {1, 2}
\* The exchanges asked for. A route hands find an exchange that ValidExchange
\* has admitted (dependencies.py, validate_exchange): one that has a client.
TickerRequests == Exchanges

\* Mutant of get_ticker: the key is still read at the second it expires.
get_ticker_at_expiry(tc, exchange, t) ==
  IF exchange \in DOMAIN tc /\ tc[exchange].last # None /\ t <= tc[exchange].expires
  THEN tc[exchange].last ELSE None

\* Cache.get_ticker at time t: the value of the key, if written and not expired.
get_ticker(tc, exchange, t) ==
  IF exchange \in DOMAIN tc /\ tc[exchange].last # None /\ t < tc[exchange].expires
  THEN tc[exchange].last ELSE None

\* What the adapter's fetch_ticker answers: a ticker or a typed failure.
Answers ==
  {[kind |-> "ticker", last |-> l, lag |-> g] : l \in TickerLasts, g \in VenueLags}
    \cup {[kind |-> k, last |-> None, lag |-> 0] : k \in {"rate_limit", "server_error"}}

\* infrastructure/exchange.py fetch_ticker: the ticker of an answer that comes in
\* at time t carries the venue's timestamp, or t when the venue gives none.
Stamped(answer, t) ==
  [kind |-> answer.kind, last |-> answer.last, timestamp |-> venue_timestamp(answer.lag, t)]

\* find from the adapter's answer on (lines 281-286): a failure of
\* fetch_ticker propagates; a ticker is written to the cache at time t, and
\* a failure of that write propagates; else (ticker, False).
TickerRepository_find_fetched(tc, exchange, answer, writeRaises, t) ==
  IF answer.kind # "ticker"
  THEN [kind |-> answer.kind, ticker |-> None, timestamp |-> 0, cached |-> FALSE, cache |-> tc]
  ELSE IF writeRaises
  THEN [kind |-> "cache_error", ticker |-> None, timestamp |-> 0, cached |-> FALSE, cache |-> tc]
  ELSE [kind |-> "ok", ticker |-> answer.last, timestamp |-> answer.timestamp,
        cached |-> FALSE,
        cache |-> cache_ticker(tc, exchange, answer.last, answer.timestamp, t)]

Max(a, b) == IF a > b THEN a ELSE b

\* api/ticker.py _calculate_age_ms at time t.
calculate_age_ms(ticker_timestamp, t) == Max(0, t - ticker_timestamp)

\* api/ticker.py get_ticker, line 129: the age_ms of the response meta.
age_ms(ticker_timestamp, cached, t) ==
  IF cached THEN calculate_age_ms(ticker_timestamp, t) ELSE 0

\* Redis TTL of a ticker key at time t: the time the key has left, and a
\* negative number for a key that is absent or has expired.
ticker_key_ttl(tc, exchange, t) ==
  IF exchange \in DOMAIN tc /\ tc[exchange].last # None /\ tc[exchange].expires > t
  THEN tc[exchange].expires - t ELSE -2

\* Cache.get_ticker_age at time t, lines 250-256: ticker_ttl - ttl(key), the
\* time the entry has spent in the cache, for a key with ttl > 0; else None.
get_ticker_age(tc, exchange, t) ==
  LET ttl == ticker_key_ttl(tc, exchange, t)
  IN  IF ttl > 0 THEN ticker_ttl - ttl ELSE None

\* The response to GET /ticker for an outcome of find: main.py's handlers
\* turn ClientError into 400, RateLimitError into 429 with a Retry-After
\* header of exc.retry_after, any other error into 500.
ticker_response(kind) ==
  CASE kind = "ok" -> [status |-> 200, retry_after |-> None]
    [] kind = "client_error" -> [status |-> 400, retry_after |-> None]
    [] kind = "rate_limit" -> [status |-> 429, retry_after |-> RetryAfter]
    [] OTHER -> [status |-> 500, retry_after |-> None]

\* The outcome of a find call that ended before any adapter call, and for
\* a hit the meta of the response that get_ticker builds at time t from the
\* entry that the cache read returned.
EarlyOutcome(exchange, lookup, kind, entry, t) ==
  LET cached == lookup = "hit"
  IN  [op |-> "ticker_find", exchange |-> exchange, lookup |-> lookup, kind |-> kind,
       ticker |-> IF cached THEN entry.last ELSE None, cached |-> cached,
       calls |-> 0, adapter |-> "none",
       writeRaised |-> FALSE, written |-> FALSE, unchanged |-> TRUE,
       response |-> ticker_response(kind),
       age_ms |-> IF cached THEN age_ms(entry.timestamp, cached, t) ELSE None,
       in_cache |-> IF cached THEN get_ticker_age((exchange :> entry), exchange, t) ELSE None]

\* The outcome of a find call that called the adapter: r is what find ends
\* with, and get_ticker builds the meta of the response at time t.
FetchedOutcome(tc, exchange, answer, writeRaises, r, t) ==
  [op |-> "ticker_find", exchange |-> exchange, lookup |-> "miss",
   kind |-> r.kind, ticker |-> r.ticker, cached |-> r.cached,
   calls |-> 1, adapter |-> answer.kind,
   writeRaised |-> answer.kind = "ticker" /\ writeRaises,
   written |-> r.cache[exchange]
                 = [last |-> answer.last, timestamp |-> answer.timestamp,
                    expires |-> t + ticker_ttl],
   unchanged |-> r.cache = tc,
   response |-> ticker_response(r.kind),
   age_ms |-> IF r.kind = "ok" THEN age_ms(r.timestamp, r.cached, t) ELSE None,
   in_cache |-> None]

\* find, line 267: a request comes in and the GET of Cache.get_ticker
\* reaches the cache, which answers from the entry it holds by then.
TickerFindCalled ==
  /\ tfind.pc = "idle"
  /\ \E exchange \in TickerRequests :
       tfind' = [pc |-> "get", exchange |-> exchange,
                 entry |-> IF get_ticker(tcache, exchange, now) # None
                           THEN tcache[exchange] ELSE NoTicker]
  /\ UNCHANGED <<store, cache, lastWrite, nsaves, now, paused, cjob, tjob, gap, tcache,
                 rlUntil, lastFire, lastCall>>

\* The arrival of a request, which is no part of the response.
TickerFindStarted == TickerFindCalled /\ UNCHANGED res

\* find, lines 267-281: the reply of the cache has come. A failure of the
\* read, a hit and a miss for an exchange without a client end the call; a
\* miss for a configured exchange goes on to the adapter call.
TickerFindReplied(readRaises) ==
  /\ tfind.pc = "get"
  /\ tfind' = IF ~ readRaises /\ tfind.entry.last = None /\ tfind.exchange \in Exchanges
              THEN [pc |-> "fetch", exchange |-> tfind.exchange]
              ELSE [pc |-> "idle"]
  /\ UNCHANGED <<store, cache, lastWrite, nsaves, now, paused, cjob, tjob, gap, tcache,
                 rlUntil, lastFire, lastCall>>

\* The reply of the cache read, and for a call that ends with it the
\* response built by now (api/ticker.py, lines 126-129).
TickerFindGot ==
  \E readRaises \in BOOLEAN :
    /\ TickerFindReplied(readRaises)
    /\ res' = IF tfind'.pc = "fetch" THEN res
              ELSE IF readRaises
              THEN EarlyOutcome(tfind.exchange, "error", "cache_error", tfind.entry, now)
              ELSE IF tfind.entry.last # None
              THEN EarlyOutcome(tfind.exchange, "hit", "ok", tfind.entry, now)
              ELSE EarlyOutcome(tfind.exchange, "miss", "client_error", tfind.entry, now)

\* find, lines 281-284: the adapter answers. A failure ends the call; a
\* ticker, which carries the venue's timestamp, goes on to the write-back.
TickerFindAnswered(answer) ==
  /\ tfind.pc = "fetch"
  /\ tfind' = IF answer.kind = "ticker"
              THEN [pc |-> "write", exchange |-> tfind.exchange, ticker |-> Stamped(answer, now)]
              ELSE [pc |-> "idle"]
  /\ UNCHANGED <<store, cache, lastWrite, nsaves, now, paused, cjob, tjob, gap, tcache,
                 rlUntil, lastFire, lastCall>>

\* The answer of the adapter, and the response to a failure.
TickerFindFetched ==
  \E answer \in Answers :
    /\ TickerFindAnswered(answer)
    /\ res' = IF answer.kind = "ticker" THEN res
              ELSE FetchedOutcome(tcache, tfind.exchange, Stamped(answer, now), FALSE,
                     TickerRepository_find_fetched(tcache, tfind.exchange, Stamped(answer, now),
                                                   FALSE, now),
                     now)

\* find, lines 284-286: the SETEX of the write-back reaches the cache, or
\* fails, and find returns.
TickerFindWritten(writeRaises) ==
  /\ tfind.pc = "write"
  /\ tcache' = TickerRepository_find_fetched(tcache, tfind.exchange, tfind.ticker,
                                             writeRaises, now).cache
  /\ tfind' = [pc |-> "idle"]
  /\ UNCHANGED <<store, cache, nsaves, now, paused, cjob, tjob, gap,
                 rlUntil, lastFire, lastCall>>

\* The write-back, and the response that get_ticker builds.
TickerFindSaved ==
  /\ \E writeRaises \in BOOLEAN :
       /\ TickerFindWritten(writeRaises)
       /\ res' = FetchedOutcome(tcache, tfind.exchange, tfind.ticker, writeRaises,
                    TickerRepository_find_fetched(tcache, tfind.exchange, tfind.ticker,
                                                  writeRaises, now),
                    now)
  /\ UNCHANGED lastWrite

NextTicker ==
  \/ Tick
  \/ TickerFindStarted
  \/ TickerFindGot
  \/ TickerFindFetched
  \/ TickerFindSaved

\* The ticker specifications start one lifetime of a cache entry, and a
\* second, before the end of the clock.
TickerStart == MaxTime - ticker_ttl - 1

InitTicker ==
  /\ store = {}
  /\ cache = {}
  /\ res = [op |-> "none"]
  /\ lastWrite = {}
  /\ nsaves = 0
  /\ SchedulerOffAt(TickerStart)

SpecTicker == InitTicker /\ [][NextTicker]_vars

\* C10 as claimed: a hit returns (ticker, cached = true) with no adapter
\* call; a miss makes exactly one adapter call, and then either the fetched
\* ticker is written back and (ticker, cached = false) returned, or the
\* adapter's typed failure propagates and the ticker cache is unchanged.
C10_CacheThrough ==
  res.op = "ticker_find" =>
    /\ res.lookup = "hit" => (res.kind = "ok" /\ res.cached /\ res.calls = 0)
    /\ res.lookup = "miss" =>
         /\ res.calls = 1
         /\ res.adapter = "ticker" => (res.kind = "ok" /\ ~ res.cached /\ res.written)
         /\ res.adapter # "ticker" => (res.kind = res.adapter /\ res.unchanged)

\* C11 as claimed: for a ticker served from the cache, the age_ms of the
\* response is the time the entry has spent in the cache (TTL_full minus
\* TTL_remaining), whatever the ticker's own venue timestamp; for a ticker
\* fetched from the exchange age_ms is 0.
C11_AgeIsTimeInCache ==
  (res.op = "ticker_find" /\ res.kind = "ok") =>
    res.age_ms = IF res.cached THEN res.in_cache ELSE 0

(***************************************************************************)
(* The read API and the admin surface. A request is served in the steps    *)
(* of the awaits of its handler, between which the saves of the background *)
(* tasks take their steps; a gap-fill task that a handler creates runs     *)
(* after the response.                                                     *)
(***************************************************************************)

\* The symbols a configuration lists for an exchange (ExchangeConfig.symbols).
ConfigSymbols == {"BTC/USDT", "ETH/USDT"}
\* Longest list of symbols of a request or a configuration in the model.
MaxSymbols == 3
SymbolLists == UNION {[1..n -> ConfigSymbols] : n \in 0..MaxSymbols}

RECURSIVE find_all_from_abort(_, _, _, _, _)
\* Mutant of find_all_from: the first exception ends the loop.
find_all_from_abort(symbols, outcomes, i, results, errors) ==
  IF i > Len(symbols) THEN [results |-> results, errors |-> errors, calls |-> i - 1]
  ELSE IF outcomes[i].kind = "ok"
  THEN find_all_from_abort(symbols, outcomes, i + 1,
                           (symbols[i] :> outcomes[i].ticker) @@ results, errors)
  ELSE [results |-> results, calls |-> i,
        errors |-> Append(errors, [symbol |-> symbols[i], error |-> outcomes[i].kind])]

RECURSIVE find_all_from(_, _, _, _, _)
\* TickerRepository.find_all, the for loop of lines 308-318 from index i on:
\* results[symbol] = ticker, or errors.append({symbol, error}).
find_all_from(symbols, outcomes, i, results, errors) ==
  IF i > Len(symbols) THEN [results |-> results, errors |-> errors, calls |-> i - 1]
  ELSE IF outcomes[i].kind = "ok"
  THEN find_all_from(symbols, outcomes, i + 1,
                     (symbols[i] :> outcomes[i].ticker) @@ results, errors)
  ELSE find_all_from(symbols, outcomes, i + 1, results,
                     Append(errors, [symbol |-> symbols[i], error |-> outcomes[i].kind]))

\* TickerRepository.find_all(exchange, symbols), outcomes[i] being what the
\* i-th call of find ends with.
TickerRepository_find_all(symbols, outcomes) ==
  find_all_from(symbols, outcomes, 1, <<>>, <<>>)

\* The exchange whose tickers the list endpoint is asked for.
ListExchange == "okx"

\* The key of a ticker in the model's cache: the tickers of BTC/USDT are
\* kept by exchange, and those of the other symbols that the list endpoint
\* asks its exchange for by symbol.
ticker_key(exchange, symbol) == IF symbol = GapTuple[2] THEN exchange ELSE symbol

\* The response of GET /api/v1/tickers/{exchange} (api/ticker.py, lines
\* 182-194): what find_all returns, outcomes[i] being what the i-th call of
\* find ended with; without configured symbols find_all is not called.
FindAllResponse(symbols, outcomes) ==
  LET r == TickerRepository_find_all(symbols, outcomes)
  IN  [op |-> "find_all", symbols |-> symbols, outcomes |-> outcomes,
       results |-> r.results, errors |-> r.errors, calls |-> r.calls]

\* find_all, lines 307-316, when the call of find for one symbol has ended
\* with outcome: the loop goes on to the find of the next symbol, which
\* awaits its cache read, or find_all returns and the response is built.
FindAllNext(outcome) ==
  LET outcomes == Append(tfind.outcomes, outcome)
  IN  IF Len(outcomes) = Len(tfind.symbols)
      THEN /\ tfind' = [pc |-> "idle"]
           /\ res' = FindAllResponse(tfind.symbols, outcomes)
      ELSE /\ tfind' = [pc |-> "list_get", symbols |-> tfind.symbols, outcomes |-> outcomes]
           /\ res' = res

\* GET /api/v1/tickers/{exchange}: the handler reads the configured symbols
\* and answers at once for none, else calls find_all, whose first find
\* awaits its cache read.
FindAllCalled ==
  /\ res.op = "none"
  /\ tfind.pc = "idle"
  /\ \E symbols \in SymbolLists :
       IF symbols = <<>>
       THEN /\ res' = FindAllResponse(symbols, <<>>)
            /\ tfind' = tfind
       ELSE /\ tfind' = [pc |-> "list_get", symbols |-> symbols, outcomes |-> <<>>]
            /\ res' = res
  /\ UNCHANGED <<store, cache, lastWrite, nsaves, now, paused, cjob, tjob, gap, tcache,
                 rlUntil, lastFire, lastCall>>

\* find of the symbol in turn, lines 267-281: the cache is read. A failure
\* of the read and a hit end this find; a miss goes on to the adapter call.
FindAllGot ==
  /\ tfind.pc = "list_get"
  /\ \E readRaises \in BOOLEAN :
       LET key == ticker_key(ListExchange, tfind.symbols[Len(tfind.outcomes) + 1])
       IN  IF readRaises
           THEN FindAllNext([kind |-> "cache_error", ticker |-> None])
           ELSE IF get_ticker(tcache, key, now) # None
           THEN FindAllNext([kind |-> "ok", ticker |-> get_ticker(tcache, key, now)])
           ELSE /\ tfind' = [pc |-> "list_fetch", symbols |-> tfind.symbols,
                             outcomes |-> tfind.outcomes]
                /\ res' = res
  /\ UNCHANGED <<store, cache, lastWrite, nsaves, now, paused, cjob, tjob, gap, tcache,
                 rlUntil, lastFire, lastCall>>

\* What the adapter answers to the finds of a list request: the venue's
\* tickers that carry no timestamp of their own, and a rate limit.
ListAnswers == {answer \in Answers : answer.lag = 0 /\ answer.kind # "server_error"}

\* find of the symbol in turn, lines 281-284: the adapter answers. A
\* failure ends this find; a ticker goes on to the write-back.
FindAllFetched ==
  /\ tfind.pc = "list_fetch"
  /\ \E answer \in ListAnswers :
       IF answer.kind # "ticker"
       THEN FindAllNext([kind |-> answer.kind, ticker |-> None])
       ELSE /\ tfind' = [pc |-> "list_write", symbols |-> tfind.symbols,
                         outcomes |-> tfind.outcomes, ticker |-> Stamped(answer, now)]
            /\ res' = res
  /\ UNCHANGED <<store, cache, lastWrite, nsaves, now, paused, cjob, tjob, gap, tcache,
                 rlUntil, lastFire, lastCall>>

\* find of the symbol in turn, lines 284-286: the SETEX of the write-back
\* reaches the cache, or fails, and this find ends.
FindAllSaved ==
  /\ tfind.pc = "list_write"
  /\ \E writeRaises \in BOOLEAN :
       LET key == ticker_key(ListExchange, tfind.symbols[Len(tfind.outcomes) + 1])
           r == TickerRepository_find_fetched(tcache, key, tfind.ticker, writeRaises, now)
       IN  /\ tcache' = r.cache
           /\ FindAllNext([kind |-> r.kind, ticker |-> r.ticker])
  /\ UNCHANGED <<store, cache, lastWrite, nsaves, now, paused, cjob, tjob, gap,
                 rlUntil, lastFire, lastCall>>

\* The response of the list request is sent; the next request comes in.
FindAllResponded ==
  /\ res.op = "find_all"
  /\ res' = [op |-> "none"]
  /\ UNCHANGED <<store, cache, lastWrite, nsaves>>
  /\ UNCHANGED schedVars

\* The list requests start one lifetime of a cache entry before the end of
\* the clock.
ListStart == MaxTime - ticker_ttl

\* The list endpoint is served while time passes and ticker keys expire;
\* no ticker is cached when the service comes up.
InitFindAll ==
  /\ store = {}
  /\ cache = {}
  /\ res = [op |-> "none"]
  /\ lastWrite = {}
  /\ nsaves = 0
  /\ now = ListStart
  /\ paused = [e \in Exchanges |-> None]
  /\ cjob = [tup \in CandleJobs |-> [pc |-> "idle", records |-> <<>>]]
  /\ tjob = [e \in TickerJobs |-> [pc |-> "idle"]]
  /\ gap = [GapNew EXCEPT !.pc = "off"]
  /\ tcache = [k \in Exchanges \cup {ticker_key(ListExchange, symbol) : symbol \in ConfigSymbols}
                 |-> NoTicker]
  /\ rlUntil = [e \in Exchanges |-> None]
  /\ lastFire = [task |-> "none"]
  /\ lastCall = [task |-> "none"]
  /\ tfind = [pc |-> "idle"]

NextFindAll ==
  \/ Tick
  \/ FindAllCalled
  \/ FindAllGot
  \/ FindAllFetched
  \/ FindAllSaved
  \/ FindAllResponded

SpecFindAll == InitFindAll /\ [][NextFindAll]_vars

\* The symbols of the form BASE/QUOTE with both sides non-empty.
WellFormedSymbols == {"BTC/USDT", "ETH/USDT", "NOSUCH/PAIR"}
\* The symbols a batch request names: the two configured ones, one of
\* valid form that no exchange knows, one of invalid form.
RequestSymbols == {"BTC/USDT", "ETH/USDT", "NOSUCH/PAIR", "BTCUSDT"}
\* VALID_TIMEFRAMES, and a timeframe outside of it.
VALID_TIMEFRAMES == Timeframes
RequestTimeframes == Timeframes \cup {"7m"}

\* BatchRequest.symbols: max_length = 20 (scaled).
BatchMaxLength == 2
\* MAX_TIME_RANGE_MS = 30 days (scaled).
MAX_TIME_RANGE_MS == 1
\* batch_ohlcv queries each symbol with limit = 1000, the largest limit.
BatchLimit == MaxLimit
\* The lists of symbols of the batch requests: every list the schema admits,
\* and the lists of one symbol more than it admits.
RequestSymbolLists ==
  UNION {[1..n -> RequestSymbols] : n \in 0..BatchMaxLength}
    \cup {[i \in 1..(BatchMaxLength + 1) |-> symbol] : symbol \in RequestSymbols}

\* api/ohlcv.py _validate_symbol: TRUE when the symbol passes.
validate_symbol(symbol) == symbol \in WellFormedSymbols

\* api/ohlcv.py _validate_time_range: TRUE when the range passes.
validate_time_range(start, end) ==
  ~ (start # None /\ end # None /\ (end < start \/ end - start > MAX_TIME_RANGE_MS))

\* A response that is an error body.
ErrorResponse(op, status, code) ==
  [op |-> op, status |-> status, code |-> code, data |-> <<>>, errors |-> <<>>, reads |-> 0]

\* A response with the request it answers; raises: the queries that failed.
ApiResponse(op, request, raises, r) ==
  [op |-> op, request |-> request, raises |-> raises, status |-> r.status, code |-> r.code,
   data |-> r.data, errors |-> r.errors, reads |-> r.reads]

RECURSIVE batch_from(_, _, _, _)
\* batch_ohlcv, the for loop of lines 251-272 from index i on, up to its next
\* await: a symbol of invalid form is reported at once; for the next symbol
\* of valid form ohlcv_repo.find is called, whose SELECT is awaited (with
\* limit = 1000 find does not read the cache); past the last symbol the loop
\* ends.
batch_from(request, i, data, errors) ==
  IF i > Len(request.symbols) \/ validate_symbol(request.symbols[i])
  THEN [i |-> i, data |-> data, errors |-> errors]
  ELSE batch_from(request, i + 1, data,
                  Append(errors, [symbol |-> request.symbols[i], error |-> "INVALID_SYMBOL"]))

\* POST /api/v1/ohlcv/batch ahead of the loop: the BatchRequest schema, then
\* the validations of batch_ohlcv (lines 229-246). Status 200: the request
\* has passed.
batch_ohlcv(request) ==
  IF Len(request.symbols) > BatchMaxLength
  THEN ErrorResponse("batch", 422, "validation_error")
  ELSE IF request.timeframe \notin VALID_TIMEFRAMES
  THEN ErrorResponse("batch", 400, "INVALID_TIMEFRAME")
  ELSE IF ~ validate_time_range(request.start, request.end)
  THEN ErrorResponse("batch", 400, "INVALID_TIME_RANGE")
  ELSE [op |-> "batch", status |-> 200, code |-> "ok", data |-> <<>>, errors |-> <<>>,
        reads |-> 0]

\* batch_ohlcv from index i of its loop on: the call awaits the SELECT of
\* the next symbol of valid form, or the loop has ended and the response is
\* built (line 274). ohlcv_repo.find has been called for the symbols of
\* valid form only (reads).
BatchNext(request, raises, i, data, errors) ==
  LET b == batch_from(request, i, data, errors)
  IN  IF b.i > Len(request.symbols)
      THEN /\ tfind' = [pc |-> "idle"]
           /\ res' = ApiResponse("batch", request, raises,
                        [status |-> 200, code |-> "ok", data |-> b.data, errors |-> b.errors,
                         reads |-> Cardinality({j \in DOMAIN request.symbols :
                                                  validate_symbol(request.symbols[j])})])
      ELSE /\ tfind' = [pc |-> "batch_select", request |-> request, raises |-> raises,
                        i |-> b.i, data |-> b.data, errors |-> b.errors]
           /\ res' = res

\* A batch request comes in: it is rejected, or the loop runs up to its
\* first find.
BatchOhlcvCalled ==
  /\ res.op = "none"
  /\ tfind.pc = "idle"
  /\ \E symbols \in RequestSymbolLists, timeframe \in RequestTimeframes,
        start \in Bounds, end \in Bounds :
       LET request == [exchange |-> "okx", symbols |-> symbols, timeframe |-> timeframe,
                       start |-> start, end |-> end]
           raises == [i \in DOMAIN symbols |-> FALSE]
           r == batch_ohlcv(request)
       IN  IF r.status # 200
           THEN /\ res' = ApiResponse("batch", request, raises, r)
                /\ tfind' = tfind
           ELSE BatchNext(request, raises, 1, <<>>, <<>>)
  /\ UNCHANGED <<store, cache, lastWrite, nsaves, now, paused, cjob, tjob, gap, tcache,
                 rlUntil, lastFire, lastCall>>

\* batch_ohlcv, lines 257-272: the SELECT of the symbol in turn is answered
\* from the table as it is by now, or fails; the symbol goes to data or to
\* errors and the loop goes on.
BatchOhlcvSelected ==
  /\ tfind.pc = "batch_select"
  /\ \E queryRaises \in BOOLEAN :
       LET request == tfind.request
           symbol == request.symbols[tfind.i]
           r == OHLCVRepository_find(store, cache, <<request.exchange, symbol, request.timeframe>>,
                                     request.start, request.end, BatchLimit, None, FALSE)
           raises == [tfind.raises EXCEPT ![tfind.i] = queryRaises]
       IN  IF queryRaises
           THEN BatchNext(request, raises, tfind.i + 1, tfind.data,
                          Append(tfind.errors, [symbol |-> symbol, error |-> "db_error"]))
           ELSE BatchNext(request, raises, tfind.i + 1,
                          (symbol :> r.records) @@ tfind.data, tfind.errors)
  /\ UNCHANGED <<store, cache, lastWrite, nsaves, now, paused, cjob, tjob, gap, tcache,
                 rlUntil, lastFire, lastCall>>

\* get_ohlcv from the return of find on: the response, or the handler of
\* main.py for an error that is none of the service's own.
get_ohlcv_response(r) ==
  IF r.kind = "ok"
  THEN [op |-> "get_ohlcv", status |-> 200, code |-> "ok", data |-> r.records,
        errors |-> <<>>, reads |-> 1]
  ELSE [op |-> "get_ohlcv", status |-> 500, code |-> "INTERNAL_ERROR", data |-> <<>>,
        errors |-> <<>>, reads |-> 1]

\* GET /api/v1/ohlcv/{exchange}/{symbol}: the Query constraints (timeframe
\* pattern), then get_ohlcv: symbol form, time range, and find up to its
\* first answer.
api_get_ohlcv(st, ca, request, cacheRaises) ==
  IF request.timeframe \notin VALID_TIMEFRAMES
  THEN ErrorResponse("get_ohlcv", 422, "validation_error")
  ELSE IF ~ validate_symbol(request.symbol)
  THEN ErrorResponse("get_ohlcv", 400, "INVALID_SYMBOL")
  ELSE IF ~ validate_time_range(request.start, request.end)
  THEN ErrorResponse("get_ohlcv", 400, "INVALID_TIME_RANGE")
  ELSE get_ohlcv_response(
         OHLCVRepository_find(st, ca, <<request.exchange, request.symbol, request.timeframe>>,
                              request.start, request.end, request.limit, None, cacheRaises))

\* A candle query comes in: it is rejected, or find is called and answers
\* with what its first await gives; after a cache read that gave nothing
\* the call goes on to the SELECT.
GetOhlcvCalled ==
  /\ res.op = "none"
  /\ tfind.pc = "idle"
  /\ \E symbol \in {"BTC/USDT", "BTCUSDT"}, timeframe \in RequestTimeframes,
        start \in Bounds, end \in Bounds, limit \in {1, MaxLimit}, cacheRaises \in BOOLEAN :
       LET request == [exchange |-> "okx", symbol |-> symbol, symbols |-> <<symbol>>,
                       timeframe |-> timeframe, start |-> start, end |-> end, limit |-> limit]
           r == api_get_ohlcv(store, cache, request, cacheRaises)
       IN  IF r.reads = 1 /\ AwaitsCache(cache, <<"okx", symbol, timeframe>>, start, end,
                                         limit, None, cacheRaises)
           THEN /\ tfind' = [pc |-> "api_select", request |-> request, raises |-> <<cacheRaises>>]
                /\ res' = res
           ELSE /\ tfind' = tfind
                /\ res' = ApiResponse("get_ohlcv", request, <<cacheRaises>>, r)
  /\ UNCHANGED <<store, cache, lastWrite, nsaves, now, paused, cjob, tjob, gap, tcache,
                 rlUntil, lastFire, lastCall>>

\* find, lines 160-195, called by get_ohlcv: the SELECT is answered from
\* the table as it is by now, find returns and the response is built.
GetOhlcvSelected ==
  /\ tfind.pc = "api_select"
  /\ LET request == tfind.request
         r == FindInStore(store, <<request.exchange, request.symbol, request.timeframe>>,
                          request.start, request.end, Min(request.limit, MaxLimit), None)
     IN  res' = ApiResponse("get_ohlcv", request, tfind.raises, get_ohlcv_response(r))
  /\ tfind' = [pc |-> "idle"]
  /\ UNCHANGED <<store, cache, lastWrite, nsaves, now, paused, cjob, tjob, gap, tcache,
                 rlUntil, lastFire, lastCall>>

\* The batches saved while requests are served: a revised candle of the
\* tuple, and of the other configured symbol of its exchange.
ApiBatches ==
  {<<OHLCV(<<GapTuple[1], symbol, GapTuple[3]>>, 0, bar)>> :
     symbol \in ConfigSymbols, bar \in Bars \ FetchedBars}

\* A candle job or a gap-fill batch opens a session and calls save.
ApiSave ==
  /\ \E records \in ApiBatches, executeRaises \in BOOLEAN : SaveCalled(records, executeRaises)
  /\ UNCHANGED res

\* The cache write of that save.
ApiCache ==
  /\ \E cacheRaises \in BOOLEAN : SaveCachedWith(cacheRaises)
  /\ UNCHANGED res

\* The session of that save commits.
ApiCommit ==
  /\ \E commitRaises \in BOOLEAN : SaveCommittedWith(commitRaises)
  /\ UNCHANGED res

\* The routes of the service.
Endpoints ==
  {"root", "health", "get_ohlcv", "batch_ohlcv", "get_ticker", "get_all_tickers",
   "trigger_gap_fill", "trigger_batch_gap_fill"}
\* The routes whose signature carries the AuthToken dependency.
AuthEndpoints == {"get_ohlcv", "batch_ohlcv"}
\* Authorization header of a request: absent, a wrong bearer, the secret.
Credentials == {"absent", "wrong", "secret"}
\* Status that HTTPBearer(auto_error=True) answers a request without
\* credentials with; it depends on the version of the framework.
NotAuthenticated == {401, 403}

\* auth.py verify_token with settings.api_token = api_token: the status it
\* raises, or 200 when the token is accepted.
verify_token(credentials, api_token, missing) ==
  IF credentials = "absent" THEN missing
  ELSE IF api_token = "" THEN 500
  ELSE IF credentials # api_token THEN 401
  ELSE 200

\* A request to a route: the dependencies of the route, then its handler.
Request(endpoint, credentials, api_token, missing) ==
  LET auth == IF endpoint \in AuthEndpoints
              THEN verify_token(credentials, api_token, missing) ELSE 200
  IN  [op |-> "request", endpoint |-> endpoint, credentials |-> credentials,
       api_token |-> api_token, status |-> auth, served |-> auth = 200]

\* A request comes in at some route.
RequestCall ==
  /\ res.op = "none"
  /\ tfind.pc = "idle"
  /\ \E endpoint \in Endpoints, credentials \in Credentials, api_token \in {"", "secret"},
        missing \in NotAuthenticated :
       res' = Request(endpoint, credentials, api_token, missing)
  /\ UNCHANGED <<store, cache, lastWrite, nsaves>>
  /\ UNCHANGED schedVars

\* What the venue's client library does on a call of the adapter: it
\* returns data, or raises one of its exceptions (all of them subclasses of
\* ccxt.BaseError). A ticker may come without the key "last" or with a null
\* one; a candle row may hold a null field: its timestamp, or a price or
\* the volume.
CcxtErrors == {"RateLimitExceeded", "NetworkError", "BadSymbol"}
NullFields == {"none", "timestamp", "value"}
VenueAnswers ==
  {[method |-> "fetch_ticker", kind |-> "data", has_last |-> h, last |-> l, null_field |-> "none"] :
      h \in BOOLEAN, l \in TickerLasts \cup {None}}
    \cup {[method |-> "fetch_ohlcv", kind |-> "data", has_last |-> FALSE, last |-> None, null_field |-> n] :
      n \in NullFields}
    \cup {[method |-> m, kind |-> k, has_last |-> FALSE, last |-> None, null_field |-> "none"] :
      m \in {"fetch_ticker", "fetch_ohlcv"}, k \in CcxtErrors}

\* What reaches the caller of the adapter: a value, a typed error
\* (RateLimitError, ServerError) or an exception of another type.
AdapterOutcome(kind, error) == [kind |-> kind, error |-> error]

\* ExchangeClient.fetch_ticker / fetch_ohlcv on the venue's answer:
\* int(...) of a row's timestamp and Decimal(str(...)) of the other fields
\* inside the try block, whose handlers catch ccxt.RateLimitExceeded and
\* ccxt.BaseError only.
ExchangeClient_fetch(connected, answer) ==
  IF ~ connected THEN AdapterOutcome("typed", "ServerError")
  ELSE IF answer.kind = "RateLimitExceeded" THEN AdapterOutcome("typed", "RateLimitError")
  ELSE IF answer.kind \in CcxtErrors THEN AdapterOutcome("typed", "ServerError")
  ELSE IF answer.method = "fetch_ticker" /\ ~ answer.has_last THEN AdapterOutcome("raw", "KeyError")
  ELSE IF answer.method = "fetch_ticker" /\ answer.last = None
  THEN AdapterOutcome("raw", "InvalidOperation")
  ELSE IF answer.method = "fetch_ohlcv" /\ answer.null_field = "timestamp"
  THEN AdapterOutcome("raw", "TypeError")
  ELSE IF answer.method = "fetch_ohlcv" /\ answer.null_field = "value"
  THEN AdapterOutcome("raw", "InvalidOperation")
  ELSE AdapterOutcome("ok", "none")

\* A caller calls the adapter and the venue answers.
AdapterCall ==
  /\ res.op = "none"
  /\ tfind.pc = "idle"
  /\ \E connected \in BOOLEAN, answer \in VenueAnswers :
       res' = [op |-> "adapter", connected |-> connected, answer |-> answer,
               outcome |-> ExchangeClient_fetch(connected, answer)]
  /\ UNCHANGED <<store, cache, lastWrite, nsaves>>
  /\ UNCHANGED schedVars

\* settings.exchanges: the configured exchanges in order, with their symbols;
\* scheduler.clients has one client per configured exchange.
settings_exchanges == <<"okx", "binance">>
exchange_symbols(exchange_id) ==
  IF exchange_id = "okx" THEN <<"BTC/USDT", "ETH/USDT">> ELSE <<"BTC/USDT">>
\* settings.timeframes.
settings_timeframes == <<"1m">>
\* The keys of CollectionScheduler.TIMEFRAME_SECONDS.
TIMEFRAME_SECONDS == {"1m", "1h"}

\* Longest list of exchanges or of timeframes in a batch gap-fill request.
MaxTargets == 2
\* BatchGapFillRequest.exchanges and .timeframes; the empty list stands for
\* an absent field too (both take the configured default).
TargetExchangeLists == UNION {[1..n -> Exchanges \cup {"kraken"}] : n \in 0..MaxTargets}
TargetTimeframeLists == UNION {[1..n -> TIMEFRAME_SECONDS \cup {"7m"}] : n \in 0..MaxTargets}

RECURSIVE timeframe_tasks_unchecked(_, _, _, _)
\* Mutant of timeframe_tasks: an unsupported timeframe is not skipped.
timeframe_tasks_unchecked(exchange_id, symbol, timeframes, k) ==
  IF k > Len(timeframes) THEN <<>>
  ELSE <<<<exchange_id, symbol, timeframes[k]>>>>
         \o timeframe_tasks_unchecked(exchange_id, symbol, timeframes, k + 1)

RECURSIVE timeframe_tasks(_, _, _, _)
\* trigger_batch_gap_fill, the loop over target_timeframes from index k on:
\* the tasks created, in order.
timeframe_tasks(exchange_id, symbol, timeframes, k) ==
  IF k > Len(timeframes) THEN <<>>
  ELSE IF timeframes[k] \notin TIMEFRAME_SECONDS
  THEN timeframe_tasks(exchange_id, symbol, timeframes, k + 1)
  ELSE <<<<exchange_id, symbol, timeframes[k]>>>>
         \o timeframe_tasks(exchange_id, symbol, timeframes, k + 1)

RECURSIVE symbol_tasks(_, _, _, _)
\* trigger_batch_gap_fill, the loop over exchange_config.symbols from index j on.
symbol_tasks(exchange_id, symbols, timeframes, j) ==
  IF j > Len(symbols) THEN <<>>
  ELSE timeframe_tasks(exchange_id, symbols[j], timeframes, 1)
         \o symbol_tasks(exchange_id, symbols, timeframes, j + 1)

RECURSIVE exchange_tasks(_, _, _)
\* trigger_batch_gap_fill, the loop over target_exchanges from index i on.
exchange_tasks(exchanges, timeframes, i) ==
  IF i > Len(exchanges) THEN <<>>
  ELSE IF exchanges[i] \notin Range(settings_exchanges)
  THEN exchange_tasks(exchanges, timeframes, i + 1)
  ELSE symbol_tasks(exchanges[i], exchange_symbols(exchanges[i]), timeframes, 1)
         \o exchange_tasks(exchanges, timeframes, i + 1)

\* trigger_batch_gap_fill: 503 without a scheduler; else the tasks created
\* by asyncio.create_task (none of them awaited) and their count.
trigger_batch_gap_fill(scheduler, request) ==
  IF ~ scheduler
  THEN [status |-> 503, target_exchanges |-> <<>>, target_timeframes |-> <<>>,
        tasks |-> <<>>, total_tasks |-> None]
  ELSE LET target_exchanges ==
             IF request.exchanges # <<>> THEN request.exchanges ELSE settings_exchanges
           target_timeframes ==
             IF request.timeframes # <<>> THEN request.timeframes ELSE settings_timeframes
           tasks == exchange_tasks(target_exchanges, target_timeframes, 1)
       IN  [status |-> 200, target_exchanges |-> target_exchanges,
            target_timeframes |-> target_timeframes,
            tasks |-> tasks, total_tasks |-> Len(tasks)]

\* The tasks of the model's tuple among the tasks that a handler has created
\* with asyncio.create_task, one coroutine per occurrence: they start to run
\* once the handler has returned. gap is the task that takes the next step
\* and gap.waiting holds the others. The tasks of the other tuples are not
\* followed.
TaskCreated(tasks) ==
  LET n == Cardinality({i \in DOMAIN tasks : tasks[i] = GapTuple})
  IN  IF n = 0 THEN gap
      ELSE [GapNew EXCEPT !.waiting = [task \in {t \in {GapNew} : n > 1} |-> n - 1]]

\* The event loop resumes another task of the tuple: the one in hand waits
\* where it is, at its await, and a task that has returned is gone.
TaskSwitch ==
  /\ \E task \in BagToSet(gap.waiting) :
       gap' = [task EXCEPT !.waiting =
                 (gap.waiting (-) SetToBag({task}))
                   (+) SetToBag({[g EXCEPT !.waiting = EmptyBag]
                                   : g \in {t \in {gap} : t.pc # "done"}})]
  /\ UNCHANGED <<repoVars, now, paused, cjob, tjob, tcache, rlUntil, lastFire, lastCall, tfind>>

\* POST /api/v1/admin/gap-fill/batch; request.days is the window of the model.
BatchGapFillCall ==
  /\ res.op = "none"
  /\ \E scheduler \in BOOLEAN, exchanges \in TargetExchangeLists, timeframes \in TargetTimeframeLists :
       LET request == [exchanges |-> exchanges, timeframes |-> timeframes]
           r == trigger_batch_gap_fill(scheduler, request)
       IN  /\ res' = [op |-> "batch_gap_fill", request |-> request, status |-> r.status,
                      target_exchanges |-> r.target_exchanges,
                      target_timeframes |-> r.target_timeframes,
                      tasks |-> r.tasks, total_tasks |-> r.total_tasks]
           /\ gap' = TaskCreated(r.tasks)
  /\ UNCHANGED <<store, cache, lastWrite, nsaves, now, paused, cjob, tjob, tcache, rlUntil,
                 lastFire, lastCall, tfind>>

\* GapFillRequest: an exchange, a symbol and a timeframe, none of them
\* checked by the schema.
GapFillExchanges == Exchanges \cup {"kraken"}
GapFillSymbols == {"BTC/USDT", "NOSUCH/PAIR"}
GapFillTimeframes == TIMEFRAME_SECONDS \cup {"7m"}

\* trigger_gap_fill: 503 without a scheduler, 400 for an exchange without a
\* client or a timeframe that is not supported; else one task is created,
\* whatever the symbol, and the response says "started".
trigger_gap_fill(scheduler, request) ==
  IF ~ scheduler THEN [status |-> 503, tasks |-> <<>>]
  ELSE IF request.exchange \notin Range(settings_exchanges) THEN [status |-> 400, tasks |-> <<>>]
  ELSE IF request.timeframe \notin TIMEFRAME_SECONDS THEN [status |-> 400, tasks |-> <<>>]
  ELSE [status |-> 200, tasks |-> <<<<request.exchange, request.symbol, request.timeframe>>>>]

\* POST /api/v1/admin/gap-fill; request.days is the window of the model.
GapFillCall ==
  /\ res.op = "none"
  /\ \E scheduler \in BOOLEAN, exchange \in GapFillExchanges, symbol \in GapFillSymbols,
        timeframe \in GapFillTimeframes :
       LET request == [exchange |-> exchange, symbol |-> symbol, timeframe |-> timeframe]
           r == trigger_gap_fill(scheduler, request)
       IN  /\ res' = [op |-> "gap_fill", request |-> request, status |-> r.status,
                      tasks |-> r.tasks]
           /\ gap' = TaskCreated(r.tasks)
  /\ UNCHANGED <<store, cache, lastWrite, nsaves, now, paused, cjob, tjob, tcache, rlUntil,
                 lastFire, lastCall, tfind>>

\* The table lacks one candle of the window when the requests arrive.
AdminStores == StoresOf({expected_timestamps(StartTime) \ {0}})

\* The application runs with gap-fill at start disabled: no task of the
\* tuple exists until a request creates one.
InitAdmin ==
  /\ store \in AdminStores
  /\ cache = {}
  /\ res = [op |-> "none"]
  /\ lastWrite = store
  /\ nsaves = 0
  /\ now = StartTime
  /\ paused = [e \in Exchanges |-> None]
  /\ cjob = [tup \in CandleJobs |-> [pc |-> "idle", records |-> <<>>]]
  /\ tjob = [e \in TickerJobs |-> [pc |-> "idle"]]
  /\ gap = [GapNew EXCEPT !.pc = "off"]
  /\ tcache = [e \in Exchanges |-> NoTicker]
  /\ rlUntil = [e \in Exchanges |-> None]
  /\ lastFire = [task |-> "none"]
  /\ lastCall = [task |-> "none"]
  /\ tfind = [pc |-> "idle"]

\* One admin request, and the steps of the tasks it has created.
NextAdmin ==
  \/ Tick
  \/ GapFillCall
  \/ BatchGapFillCall
  \/ GapStart
  \/ GapQueried
  \/ GapPlanned
  \/ GapFetched
  \/ GapExecute
  \/ GapCache
  \/ GapCommit
  \/ GapWoke
  \/ TaskSwitch

SpecAdmin == InitAdmin /\ [][NextAdmin]_vars

\* The candles in the table when the requests of this specification arrive.
ApiStores ==
  {{}, {OHLCV(GapTuple, ts, bar) : ts \in Timestamps, bar \in FetchedBars}}

\* The response of the request in hand is sent; the next request comes in.
Responded ==
  /\ res.op # "none"
  /\ res' = [op |-> "none"]
  /\ UNCHANGED <<store, cache, lastWrite, nsaves>>
  /\ UNCHANGED schedVars

InitApi ==
  /\ store \in ApiStores
  /\ cache = {}
  /\ res = [op |-> "none"]
  /\ lastWrite = store
  /\ nsaves = 0
  /\ SchedulerOff

NextApi ==
  \/ BatchOhlcvCalled
  \/ BatchOhlcvSelected
  \/ GetOhlcvCalled
  \/ GetOhlcvSelected
  \/ ApiSave
  \/ ApiCache
  \/ ApiCommit
  \/ RequestCall
  \/ AdapterCall
  \/ Responded

SpecApi == InitApi /\ [][NextApi]_vars

\* The symbols of a list of error entries.
ErrorSymbols(errors) == {errors[k].symbol : k \in DOMAIN errors}

\* C12 as claimed: find_all calls find for every symbol of the list, and each
\* symbol ends up in exactly one of the result map and the error list, a
\* failing symbol as {symbol, error}.
C12_FindAllPartition ==
  res.op = "find_all" =>
    /\ res.calls = Len(res.symbols)
    /\ \A i \in DOMAIN res.symbols :
         /\ (res.symbols[i] \in DOMAIN res.results) # (res.symbols[i] \in ErrorSymbols(res.errors))
         /\ res.outcomes[i].kind # "ok" =>
              \E k \in DOMAIN res.errors :
                res.errors[k] = [symbol |-> res.symbols[i], error |-> res.outcomes[i].kind]

\* The positions of the list whose call of find raised, in order.
Failed(outcomes) == SelectSeq([i \in DOMAIN outcomes |-> i], LAMBDA i : outcomes[i].kind # "ok")

\* C12 amended: find_all calls find once per position of the list, in order,
\* and never aborts; the error list holds one {symbol, error} per failing
\* position, in the order of the list, and the result map holds, for every
\* symbol with a successful position, the ticker of its last successful
\* position. A symbol is in exactly one of the two when it occurs once in the
\* list; a symbol listed twice is in both when one call fails and one succeeds.
C12_FindAllPerPosition ==
  res.op = "find_all" =>
    LET failed == Failed(res.outcomes)
        succeeded == {i \in DOMAIN res.symbols : res.outcomes[i].kind = "ok"}
    IN  /\ res.calls = Len(res.symbols)
        /\ Len(res.errors) = Len(failed)
        /\ \A k \in DOMAIN failed :
             res.errors[k] = [symbol |-> res.symbols[failed[k]],
                              error |-> res.outcomes[failed[k]].kind]
        /\ DOMAIN res.results = {res.symbols[i] : i \in succeeded}
        /\ \A i \in succeeded :
             (\A j \in succeeded : res.symbols[j] = res.symbols[i] => j <= i)
               => res.results[res.symbols[i]] = res.outcomes[i].ticker
        /\ \A i \in DOMAIN res.symbols :
             (\A j \in DOMAIN res.symbols : res.symbols[j] = res.symbols[i] => j = i)
               => ((res.symbols[i] \in DOMAIN res.results)
                     # (res.symbols[i] \in ErrorSymbols(res.errors)))

\* A list of three symbols whose first call failed and whose later calls
\* were still made, one of them succeeding.
C12_Witness ==
  /\ res.op = "find_all" /\ Len(res.symbols) = 3 /\ res.calls = 3
  /\ res.outcomes[1].kind # "ok" /\ res.outcomes[3].kind = "ok"
  /\ Len(res.errors) >= 1 /\ res.symbols[3] \in DOMAIN res.results

\* C13 as claimed: in an answered batch, a symbol whose query fails or that
\* does not exist is reported in errors and is absent from data, and every
\* other symbol has its data returned.
C13_BatchPartialSuccess ==
  (res.op = "batch" /\ res.status = 200) =>
    \A i \in DOMAIN res.request.symbols :
      LET symbol == res.request.symbols[i]
      IN  IF res.raises[i] \/ symbol \notin ConfigSymbols
          THEN symbol \in ErrorSymbols(res.errors) /\ symbol \notin DOMAIN res.data
          ELSE symbol \in DOMAIN res.data

\* The time range of a request is inverted or longer than the maximum.
BadRange(request) ==
  /\ request.start # None /\ request.end # None
  /\ (request.end < request.start \/ request.end - request.start > MAX_TIME_RANGE_MS)

\* The request has no other fault than, possibly, its time range.
OtherwiseValid(request) ==
  /\ request.timeframe \in VALID_TIMEFRAMES
  /\ Len(request.symbols) <= BatchMaxLength
  /\ res.op = "get_ohlcv" => validate_symbol(request.symbol)

\* C14 as claimed: a candle query or batch with an inverted or too long time
\* range is rejected before any cache or store access, with
\* INVALID_TIME_RANGE and status 400 when it has no other fault; a range of
\* exactly the maximum is accepted; a batch with more symbols than the
\* maximum is rejected with BATCH_SIZE_EXCEEDED and status 400.
C14_RequestValidation ==
  res.op \in {"get_ohlcv", "batch"} =>
    /\ BadRange(res.request) =>
         /\ res.status \in {400, 422} /\ res.reads = 0
         /\ OtherwiseValid(res.request) =>
              (res.status = 400 /\ res.code = "INVALID_TIME_RANGE")
    /\ (~ BadRange(res.request) /\ OtherwiseValid(res.request)) =>
         res.code # "INVALID_TIME_RANGE"
    /\ (res.op = "batch" /\ Len(res.request.symbols) > BatchMaxLength) =>
         (res.status = 400 /\ res.code = "BATCH_SIZE_EXCEEDED")

\* C15 as claimed: a request to any route other than /health and / that
\* carries no bearer equal to the configured secret is answered 401 and its
\* handler does not run (no repository call, adapter call or gap-fill task).
C15_BearerRequired ==
  (res.op = "request" /\ res.endpoint \notin {"root", "health"}
     /\ res.api_token = "secret" /\ res.credentials # res.api_token) =>
    (res.status = 401 /\ ~ res.served)

\* C16 as claimed: when the adapter call of a ticker read answers
\* RateLimited, the request is answered 429 with Retry-After equal to the
\* adapter's retry_after and the exchange is paused for the background
\* jobs (is_paused holds for it from then on for retry_after seconds).
C16_ReadPathRateLimitPauses ==
  (res.op = "ticker_find" /\ res.adapter = "rate_limit") =>
    /\ res.response = [status |-> 429, retry_after |-> RetryAfter]
    /\ is_paused(paused, res.exchange, now)

(***************************************************************************)
(* Specification of the candle job and a gap-fill task running for the     *)
(* same tuple while the venue revises its candles: the actions of the      *)
(* scheduler, with answers that differ from call to call, and a history    *)
(* of what was fetched.                                                    *)
(***************************************************************************)

\* The values the venue answers with: a candle is revised between calls.
RaceBars == Bars

\* History of the fetches: the rows fetched latest per identity key, which
\* task fetched which timestamp, and whether a save did not take effect.
Fetched(h, task, records) ==
  [h EXCEPT !.latest = Written(h.latest, records),
            !.by = h.by \cup {<<task, r.timestamp>> : r \in Range(records)}]

SaveFailed(h, records, st) ==
  [h EXCEPT !.failed = h.failed \/ ~ (Range(records) \subseteq st)]

\* The table is empty when the two tasks start.
RaceStores == {{}}

InitRace ==
  /\ store \in RaceStores
  /\ cache = {}
  /\ res = [op |-> "race", latest |-> {}, by |-> {}, failed |-> FALSE]
  /\ lastWrite = store
  /\ nsaves = 0
  /\ now = StartTime
  /\ paused = [e \in Exchanges |-> None]
  /\ cjob = [tup \in CandleJobs |-> [pc |-> "idle", records |-> <<>>]]
  /\ tjob = [e \in TickerJobs |-> [pc |-> "idle"]]
  /\ gap = GapNew
  /\ tcache = [e \in Exchanges |-> NoTicker]
  /\ rlUntil = [e \in Exchanges |-> None]
  /\ lastFire = [task |-> "none"]
  /\ lastCall = [task |-> "none"]
  /\ tfind = [pc |-> "idle"]

\* _collect_ohlcv, line 176: the adapter answers the candle job.
RaceCollectFetched(tup) ==
  /\ CollectOhlcvAnswered(tup, RaceBars)
  /\ res' = Fetched(res, "candle", cjob'[tup].records)

\* _collect_ohlcv, lines 179-180: the INSERT of the candle job.
RaceCollectSaved(tup) ==
  /\ CollectOhlcvExecuted(tup)
  /\ res' = IF cjob'[tup].pc # "idle" THEN res ELSE [res EXCEPT !.failed = TRUE]

\* The cache write of the candle job.
RaceCollectCached(tup) ==
  /\ CollectOhlcvCached(tup)
  /\ res' = IF cjob'[tup].pc # "idle" THEN res ELSE [res EXCEPT !.failed = TRUE]

\* The session of the candle job commits.
RaceCollectCommitted(tup) ==
  /\ CollectOhlcvCommitted(tup)
  /\ res' = SaveFailed(res, cjob[tup].records, store')

\* _fill_ohlcv_gap, lines 368-373: the adapter answers the gap-fill task.
RaceGapFetched ==
  /\ GapAnswered(RaceBars)
  /\ res' = Fetched(res, "gap", gap'.records)

\* _fill_ohlcv_gap, lines 386-387: the INSERT of the gap-fill batch.
RaceGapSaved ==
  /\ GapExecuted
  /\ res' = IF gap'.pc \in {"cache", "commit"} THEN res ELSE [res EXCEPT !.failed = TRUE]

\* The cache write of the gap-fill batch.
RaceGapCached ==
  /\ GapCached
  /\ res' = IF gap'.pc = "commit" THEN res ELSE [res EXCEPT !.failed = TRUE]

\* The session of the gap-fill batch commits.
RaceGapCommitted ==
  /\ GapCommitted
  /\ res' = SaveFailed(res, gap.records, store')

NextRace ==
  \/ Tick
  \/ \E tup \in CandleJobs : CollectOhlcvFire(tup)
  \/ \E tup \in CandleJobs : RaceCollectFetched(tup)
  \/ \E tup \in CandleJobs : RaceCollectSaved(tup)
  \/ \E tup \in CandleJobs : RaceCollectCached(tup)
  \/ \E tup \in CandleJobs : RaceCollectCommitted(tup)
  \/ GapStart
  \/ GapQueried
  \/ GapPlanned
  \/ RaceGapFetched
  \/ RaceGapSaved
  \/ RaceGapCached
  \/ RaceGapCommitted
  \/ GapWoke

SpecRace == InitRace /\ [][NextRace]_vars

\* No fetched batch is waiting for its save.
AllSaved == gap.records = <<>> /\ \A tup \in CandleJobs : cjob[tup].records = <<>>

\* The timestamps that both the candle job and the gap-fill task fetched.
FetchedByBoth ==
  {r \in res.latest : <<"candle", r.timestamp>> \in res.by /\ <<"gap", r.timestamp>> \in res.by}

\* C17 as claimed: when the candle job and the gap-fill task of a tuple
\* have both fetched a candle of some timestamp and every fetched batch has
\* been saved, no save having failed, the row stored for that timestamp is
\* the one that was fetched latest.
C17_LatestFetchWins ==
  (res.op = "race" /\ AllSaved /\ ~ res.failed) =>
    \A r \in FetchedByBoth : r \in store

\* The identity keys present in a store.
Keys(st) == {Key(r) : r \in st}

\* C18: no step of the repository's callers (saves with and without
\* failures, reads) removes an identity key from the store, and a save that
\* fails (execute, cache write or commit raises, followed by the rollback)
\* leaves the store exactly as it was.
C18_NeverDeletes ==
  [][/\ Keys(store) \subseteq Keys(store')
     /\ (res' # res /\ res'.op = "save" /\ res'.kind # "ok") => store' = store]_vars

\* A save of candles that the store did not hold was rolled back at the
\* commit, over a store that holds candles.
C18_Witness ==
  /\ res.op = "save" /\ res.kind # "ok" /\ res.commitRaised /\ ~ res.stored
  /\ store # {}

\* C19 as claimed: whatever the venue answers to fetch_ohlcv or
\* fetch_ticker (its rate limit, a network error, an unknown symbol, a
\* ticker with a missing or null last price, a candle with a null field),
\* the caller of the adapter gets a value or a typed error, never an
\* exception of another type.
C19_FailuresAreTyped ==
  res.op = "adapter" => res.outcome.kind \in {"ok", "typed"}

\* How often x occurs in a sequence.
Count(seq, x) == Cardinality({i \in DOMAIN seq : seq[i] = x})

\* The tuples of the cross-product: the targeted exchanges that are
\* configured, their configured symbols, the targeted timeframes that are
\* supported.
TargetTuples ==
  {<<e, sy, tf>> : e \in Range(res.target_exchanges) \cap Range(settings_exchanges),
                   sy \in ConfigSymbols, tf \in Range(res.target_timeframes) \cap TIMEFRAME_SECONDS}
    \cap {x \in Exchanges \X ConfigSymbols \X TIMEFRAME_SECONDS : x[2] \in Range(exchange_symbols(x[1]))}

\* C20 as claimed: trigger_batch_gap_fill creates exactly one gap-fill task
\* for each tuple of the cross-product, none for an unconfigured exchange
\* or an unsupported timeframe, and total_tasks is the number of tasks
\* created.
C20_BatchCrossProduct ==
  (res.op = "batch_gap_fill" /\ res.status = 200) =>
    /\ Range(res.tasks) \subseteq TargetTuples
    /\ \A x \in TargetTuples : Count(res.tasks, x) = 1
    /\ res.total_tasks = Len(res.tasks)

\* C20 amended: trigger_batch_gap_fill creates one task per occurrence: a
\* tuple of the cross-product gets as many tasks as its exchange occurs in
\* the targeted exchanges, times its symbol in the exchange's symbols, times
\* its timeframe in the targeted timeframes (one each when the lists hold no
\* duplicates); no other task is created and total_tasks is the number of
\* tasks created.
C20_BatchCrossProductPerOccurrence ==
  (res.op = "batch_gap_fill" /\ res.status = 200) =>
    /\ Range(res.tasks) \subseteq TargetTuples
    /\ \A x \in TargetTuples :
         Count(res.tasks, x) = Count(res.target_exchanges, x[1])
                                 * Count(exchange_symbols(x[1]), x[2])
                                 * Count(res.target_timeframes, x[3])
    /\ res.total_tasks = Len(res.tasks)

\* A batch request that names a configured and an unconfigured exchange, a
\* supported and an unsupported timeframe, and created tasks.
C20_Witness ==
  /\ res.op = "batch_gap_fill" /\ res.status = 200 /\ res.total_tasks > 0
  /\ \E i \in DOMAIN res.request.exchanges : res.request.exchanges[i] \notin Exchanges
  /\ \E k \in DOMAIN res.request.timeframes : res.request.timeframes[k] \notin TIMEFRAME_SECONDS

(***************************************************************************)
(* Specification of the shutdown: the scheduler's jobs and the gap-fill    *)
(* task run until lifespan stops the scheduler and then releases the       *)
(* exchange clients, the cache and the store pool, one await after the     *)
(* other.                                                                  *)
(***************************************************************************)

\* The phases in which a resource has been released.
Released == {"clients_closed", "cache_closed", "disposed"}

\* The table lacks one candle of the window when the application starts.
StopStores == StoresOf({expected_timestamps(StartTime) \ {0}})

InitStop ==
  /\ store \in StopStores
  /\ cache = {}
  /\ res = [op |-> "lifespan", phase |-> "running", late |-> {}]
  /\ lastWrite = store
  /\ nsaves = 0
  /\ now = StartTime
  /\ paused = [e \in Exchanges |-> None]
  /\ cjob = [tup \in CandleJobs |-> [pc |-> "idle", records |-> <<>>]]
  /\ tjob = [e \in TickerJobs |-> [pc |-> "idle"]]
  /\ gap = GapNew
  /\ tcache = [e \in Exchanges |-> NoTicker]
  /\ rlUntil = [e \in Exchanges |-> None]
  /\ lastFire = [task |-> "none"]
  /\ lastCall = [task |-> "none"]
  /\ tfind = [pc |-> "idle"]

\* A job fires only while the scheduler runs.
RunCollectOhlcvFire(tup) == res.phase = "running" /\ CollectOhlcvFire(tup)
RunCollectTickerFire(e) == res.phase = "running" /\ CollectTickerFire(e)

\* CollectionScheduler.stop: shutdown of the scheduler; its executor cancels
\* the pending futures of the jobs it started. The gap-fill task was created
\* with asyncio.create_task and is not known to the scheduler.
Stop ==
  /\ res.phase = "running"
  /\ res' = [res EXCEPT !.phase = "stopped"]
  /\ cjob' = [tup \in CandleJobs |-> [pc |-> "idle", records |-> <<>>]]
  /\ tjob' = [e \in TickerJobs |-> [pc |-> "idle"]]
  /\ UNCHANGED <<store, cache, lastWrite, nsaves, now, paused, gap, tcache, rlUntil,
                 lastFire, lastCall, tfind>>

\* lifespan, lines 172-185: await client.disconnect() for every client, then
\* await cache.disconnect(), then await db.dispose().
Release ==
  /\ res.phase \notin {"running", "disposed"}
  /\ res' = [res EXCEPT !.phase = Phases[PhaseNo(res.phase) + 1]]
  /\ UNCHANGED <<store, cache, lastWrite, nsaves>>
  /\ UNCHANGED schedVars

\* What a step of the gap-fill task adds to "late": a write to the store
\* after the pool was disposed, to the cache after it was closed.
LateWrites ==
  (IF res.phase = "disposed" /\ store' # store THEN {"store"} ELSE {})
    \cup (IF PhaseNo(res.phase) >= PhaseNo("cache_closed") /\ cache' # cache
          THEN {"cache"} ELSE {})

\* The INSERT of a batch of the gap-fill task.
StopGapSaved ==
  /\ GapExecutedAt(PhaseNo(res.phase) < PhaseNo("cache_closed"))
  /\ res' = [res EXCEPT !.late = @ \cup LateWrites]

\* The cache write of a batch of the gap-fill task.
StopGapCached ==
  /\ GapCached
  /\ res' = [res EXCEPT !.late = @ \cup LateWrites]

\* The session of the gap-fill batch commits.
StopGapCommitted ==
  /\ GapCommitted
  /\ res' = [res EXCEPT !.late = @ \cup LateWrites]

NextStop ==
  \/ Tick
  \/ \E tup \in CandleJobs : RunCollectOhlcvFire(tup)
  \/ \E tup \in CandleJobs : CollectOhlcvFetched(tup)
  \/ \E tup \in CandleJobs : CollectOhlcvExecute(tup)
  \/ \E tup \in CandleJobs : CollectOhlcvCache(tup)
  \/ \E tup \in CandleJobs : CollectOhlcvCommit(tup)
  \/ \E e \in TickerJobs : RunCollectTickerFire(e)
  \/ \E e \in TickerJobs : CollectTickerFetched(e)
  \/ \E e \in TickerJobs : CollectTickerSaved(e)
  \/ GapStart
  \/ GapQueried
  \/ GapPlanned
  \/ GapFetched
  \/ StopGapSaved
  \/ StopGapCached
  \/ StopGapCommitted
  \/ GapWoke
  \/ Stop
  \/ Release

SpecStop == InitStop /\ [][NextStop]_vars

\* No candle job, ticker job or gap-fill task is in flight.
NoTaskInFlight ==
  /\ \A tup \in CandleJobs : cjob[tup].pc = "idle"
  /\ \A e \in TickerJobs : tjob[e].pc = "idle"
  /\ gap.pc = "done"

\* C21 as claimed: once a resource has been released (clients disconnected,
\* cache closed, pool disposed) every collection task, the gap-fill task
\* included, has completed or been cancelled, and no task has written to the
\* store or to the cache after the release of that resource.
C21_ShutdownQuiescence ==
  res.op = "lifespan" =>
    /\ res.phase \in Released => NoTaskInFlight
    /\ res.late = {}

(***************************************************************************)
(* Specification of CollectionScheduler.start: the configuration it is     *)
(* given, the jobs it registers and the gap-fill tasks it creates.         *)
(***************************************************************************)

\* Longest list of symbols and of timeframes in a configuration.
MaxConfig == 2
\* CollectionScheduler.TICKER_INTERVAL_SECONDS
TICKER_INTERVAL_SECONDS == 10

\* Mutant of timeframe_seconds: every timeframe gets the default.
timeframe_seconds_default(tf) == 60

\* self.TIMEFRAME_SECONDS.get(tf, 60)
timeframe_seconds(tf) ==
  IF tf = "1m" THEN 60 ELSE IF tf = "1h" THEN 3600 ELSE 60

\* The configurations: settings.exchanges (id and symbols of each) and
\* settings.timeframes, neither validated nor de-duplicated by config.py.
ExchangeConfigs ==
  {[id |-> e, symbols |-> sy] :
     e \in Exchanges, sy \in UNION {[1..n -> ConfigSymbols] : n \in 0..MaxConfig}}
ExchangeConfigLists == UNION {[1..n -> ExchangeConfigs] : n \in 1..2}
TimeframeLists == UNION {[1..n -> TIMEFRAME_SECONDS \cup {"7m"}] : n \in 0..MaxConfig}

\* AsyncIOScheduler.add_job(func, IntervalTrigger(seconds), id=job_id,
\* replace_existing=True) on the job store.
add_job(jobs, job_id, func, seconds) ==
  [j \in DOMAIN jobs \cup {job_id} |->
     IF j = job_id THEN [func |-> func, seconds |-> seconds] ELSE jobs[j]]

RECURSIVE start_timeframes(_, _, _, _, _, _)
\* start, the loop over timeframes from index k on (lines 550-568): the candle
\* job of the tuple and, when enabled, its gap-fill task.
start_timeframes(acc, ex_id, symbol, timeframes, k, gap_fill_enabled) ==
  IF k > Len(timeframes) THEN acc
  ELSE LET tf == timeframes[k]
           job_id == [kind |-> "ohlcv", exchange |-> ex_id, symbol |-> symbol, timeframe |-> tf]
           next == [jobs |-> add_job(acc.jobs, job_id, "_collect_ohlcv", timeframe_seconds(tf)),
                    tasks |-> IF gap_fill_enabled
                              THEN Append(acc.tasks, <<ex_id, symbol, tf>>) ELSE acc.tasks]
       IN  start_timeframes(next, ex_id, symbol, timeframes, k + 1, gap_fill_enabled)

RECURSIVE start_symbols(_, _, _, _, _)
\* start, the loop over ex.symbols from index j on (lines 548-582): the candle
\* jobs of the symbol, then its ticker job.
start_symbols(acc, ex, j, timeframes, gap_fill_enabled) ==
  IF j > Len(ex.symbols) THEN acc
  ELSE LET symbol == ex.symbols[j]
           a == start_timeframes(acc, ex.id, symbol, timeframes, 1, gap_fill_enabled)
           ticker_job_id == [kind |-> "ticker", exchange |-> ex.id, symbol |-> symbol, timeframe |-> ""]
           next == [a EXCEPT !.jobs = add_job(a.jobs, ticker_job_id, "_collect_ticker",
                                              TICKER_INTERVAL_SECONDS)]
       IN  start_symbols(next, ex, j + 1, timeframes, gap_fill_enabled)

RECURSIVE start_exchanges(_, _, _, _, _)
\* start, the loop over exchanges from index i on (line 547).
start_exchanges(acc, exchanges, i, timeframes, gap_fill_enabled) ==
  IF i > Len(exchanges) THEN acc
  ELSE start_exchanges(start_symbols(acc, exchanges[i], 1, timeframes, gap_fill_enabled),
                       exchanges, i + 1, timeframes, gap_fill_enabled)

\* CollectionScheduler.start(exchanges, timeframes, gap_fill_enabled): the job
\* store and the gap-fill tasks created (not awaited) when it returns.
CollectionScheduler_start(exchanges, timeframes, gap_fill_enabled) ==
  start_exchanges([jobs |-> <<>>, tasks |-> <<>>], exchanges, 1, timeframes, gap_fill_enabled)

InitStart ==
  /\ store = {}
  /\ cache = {}
  /\ res = [op |-> "none"]
  /\ lastWrite = {}
  /\ nsaves = 0
  /\ SchedulerOff

\* lifespan starts the scheduler with the configuration.
Start ==
  /\ res.op = "none"
  /\ \E exchanges \in ExchangeConfigLists, timeframes \in TimeframeLists, gap_fill_enabled \in BOOLEAN :
       LET r == CollectionScheduler_start(exchanges, timeframes, gap_fill_enabled)
       IN  res' = [op |-> "start", exchanges |-> exchanges, timeframes |-> timeframes,
                   gap_fill_enabled |-> gap_fill_enabled, jobs |-> r.jobs, tasks |-> r.tasks]
  /\ UNCHANGED <<store, cache, lastWrite, nsaves>>
  /\ UNCHANGED schedVars

NextStart == Start

SpecStart == InitStart /\ [][NextStart]_vars

\* The configured tuples and (exchange, symbol) pairs of a start call.
StartTuples ==
  {<<res.exchanges[i].id, res.exchanges[i].symbols[j], res.timeframes[k]>> :
     <<i, j, k>> \in {x \in (DOMAIN res.exchanges) \X (1..MaxConfig) \X (DOMAIN res.timeframes) :
                        x[2] \in DOMAIN res.exchanges[x[1]].symbols}}
StartPairs ==
  {<<res.exchanges[i].id, res.exchanges[i].symbols[j]>> :
     <<i, j>> \in {x \in (DOMAIN res.exchanges) \X (1..MaxConfig) :
                     x[2] \in DOMAIN res.exchanges[x[1]].symbols}}
\* How often a tuple occurs in the configuration lists.
StartOccurrences(t) ==
  Cardinality({x \in (DOMAIN res.exchanges) \X (1..MaxConfig) \X (DOMAIN res.timeframes) :
                 /\ x[2] \in DOMAIN res.exchanges[x[1]].symbols
                 /\ <<res.exchanges[x[1]].id, res.exchanges[x[1]].symbols[x[2]],
                      res.timeframes[x[3]]>> = t})

\* The jobs of the job store: one candle job per configured tuple, at the
\* interval of its timeframe when TIMEFRAME_SECONDS knows it, and one ticker
\* job per configured (exchange, symbol), every 10 s.
StartJobsExact ==
  /\ {<<j.exchange, j.symbol, j.timeframe>> : j \in {x \in DOMAIN res.jobs : x.kind = "ohlcv"}}
       = StartTuples
  /\ {<<j.exchange, j.symbol>> : j \in {x \in DOMAIN res.jobs : x.kind = "ticker"}} = StartPairs
  /\ \A j \in DOMAIN res.jobs :
       /\ j.kind = "ohlcv" => res.jobs[j].func = "_collect_ohlcv"
       /\ (j.kind = "ohlcv" /\ j.timeframe = "1m") => res.jobs[j].seconds = 60
       /\ (j.kind = "ohlcv" /\ j.timeframe = "1h") => res.jobs[j].seconds = 3600
       /\ j.kind = "ticker" =>
            res.jobs[j] = [func |-> "_collect_ticker", seconds |-> TICKER_INTERVAL_SECONDS]

\* C22 as claimed: start registers exactly one candle job per configured
\* tuple, firing every interval_seconds(interval), and one ticker job per
\* (exchange, symbol), firing every 10 s; with gap-fill enabled it creates
\* exactly one gap-fill task per tuple, with gap-fill disabled none.
C22_StartJobSet ==
  res.op = "start" =>
    /\ StartJobsExact
    /\ res.gap_fill_enabled =>
         Range(res.tasks) = StartTuples /\ \A t \in StartTuples : Count(res.tasks, t) = 1
    /\ ~ res.gap_fill_enabled => res.tasks = <<>>

\* C22 amended: the jobs are as claimed (a tuple listed twice has one job,
\* its id being replaced); the gap-fill tasks are created one per occurrence
\* of a tuple in the configuration lists, so exactly one per tuple when the
\* lists hold no duplicates; none when gap-fill is disabled.
C22_StartJobSetPerOccurrence ==
  res.op = "start" =>
    /\ StartJobsExact
    /\ res.gap_fill_enabled =>
         /\ Range(res.tasks) = StartTuples
         /\ \A t \in StartTuples : Count(res.tasks, t) = StartOccurrences(t)
    /\ ~ res.gap_fill_enabled => res.tasks = <<>>

\* A start with two exchanges, an hourly timeframe and gap-fill enabled that
\* created tasks.
C22_Witness ==
  /\ res.op = "start" /\ res.gap_fill_enabled /\ Len(res.tasks) > 1
  /\ Len(res.exchanges) = 2 /\ res.exchanges[1].id # res.exchanges[2].id
  /\ \E k \in DOMAIN res.timeframes : res.timeframes[k] = "1h"

\* C23 as claimed: for every requested limit, also one that is zero,
\* negative or above the maximum, find answers as it does for the limit
\* clamped to [1, MaxLimit], with at most that many records.
C23_LimitClamped ==
  \A tup \in Tuples, start \in Bounds, end \in Bounds, cursor \in Bounds, lim \in RequestedLimits :
    LET clamped == Max(1, Min(lim, MaxLimit))
        r == OHLCVRepository_find(store, cache, tup, start, end, lim, cursor, FALSE)
    IN  /\ r = OHLCVRepository_find(store, cache, tup, start, end, clamped, cursor, FALSE)
        /\ Len(r.records) <= clamped

\* The members of one cache key.
Entries(ca, tup) == {m \in ca : ohlcv_key(m) = tup}

\* What one cache_ohlcv call on the present cache evicts from a key.
Evicted(records, tup) ==
  (Entries(cache, tup) \cup Entries(Range(records), tup)) \ Entries(cache_ohlcv(cache, records), tup)

\* C24: every cache key holds at most ohlcv_cache_size entries, and a
\* cache_ohlcv call with any batch leaves in each key of the batch the
\* ohlcv_cache_size entries (or all, when fewer) of what was present plus what
\* was inserted, none of them older than an evicted one; the other keys keep
\* their entries.
C24_CacheCap ==
  /\ \A tup \in Tuples : Cardinality(Entries(cache, tup)) <= ohlcv_cache_size
  /\ \A records \in Batches, tup \in Tuples :
       LET all == Entries(cache, tup) \cup Entries(Range(records), tup)
           after == Entries(cache_ohlcv(cache, records), tup)
       IN  /\ after \subseteq all
           /\ Cardinality(after) = Min(ohlcv_cache_size, Cardinality(all))
           /\ \A e \in all \ after, m \in after : e.timestamp <= m.timestamp
           /\ Entries(Range(records), tup) = {} => after = Entries(cache, tup)

\* A committed save has cached a batch, and caching one more batch evicts an
\* entry with a lower timestamp than one it keeps.
C24_Witness ==
  /\ res.op = "save" /\ res.kind = "ok" /\ res.n > 0
  /\ \E records \in Batches, tup \in Tuples :
       \E e \in Evicted(records, tup), m \in Entries(cache_ohlcv(cache, records), tup) :
         e.timestamp < m.timestamp

(***************************************************************************)
(* The ticker cache under its two writers: the ticker job of the scheduler *)
(* (ticker_repo.save) and the write-back of TickerRepository.find.         *)
(***************************************************************************)

\* History: the last ticker written to the key of an exchange, when, by
\* whom, and whose live entry that write replaced.
NoWrite == [last |-> None, at |-> 0, by |-> "none", over |-> "none"]

WriteBy(h, tc, exchange, last, writer, t) ==
  [h EXCEPT ![exchange] =
     [last |-> last, at |-> t, by |-> writer,
      over |-> IF get_ticker(tc, exchange, t) # None THEN h[exchange].by ELSE "none"]]

InitTickerCache ==
  /\ store = {}
  /\ cache = {}
  /\ res = [op |-> "none"]
  /\ lastWrite = [e \in Exchanges |-> NoWrite]
  /\ nsaves = 0
  /\ SchedulerOffAt(TickerStart)

\* The ticker job's fetch answers, with any of the venue's prices.
JobTickerFetched(e) ==
  /\ \E outcome \in {"ticker", "rate_limit", "error"}, last \in TickerLasts, lag \in VenueLags :
       CollectTickerAnswered(e, outcome, last, lag)
  /\ UNCHANGED lastWrite

\* The ticker job's write reaches the cache.
JobTickerSaved(e) ==
  \E cacheRaises \in BOOLEAN :
    /\ CollectTickerCached(e, cacheRaises)
    /\ lastWrite' = IF ~ cacheRaises
                    THEN WriteBy(lastWrite, tcache, e, tjob[e].last, "job", now)
                    ELSE lastWrite

\* A request for the ticker of the job's exchange.
FindTickerCalled ==
  /\ TickerFindCalled
  /\ tfind'.exchange \in TickerJobs
  /\ UNCHANGED res

\* The reply of the cache read comes in.
FindTickerGot ==
  /\ \E readRaises \in BOOLEAN : TickerFindReplied(readRaises)
  /\ UNCHANGED res

\* The on-demand fetch of find answers, with a ticker stamped at the time of
\* the answer or with a failure.
FindTickerFetched ==
  /\ \E answer \in {a \in Answers : a.lag = 0} : TickerFindAnswered(answer)
  /\ UNCHANGED res

\* The write-back of find reaches the cache.
FindTickerSaved ==
  \E writeRaises \in BOOLEAN :
    /\ TickerFindWritten(writeRaises)
    /\ UNCHANGED res
    /\ lastWrite' = IF ~ writeRaises
                    THEN WriteBy(lastWrite, tcache, tfind.exchange, tfind.ticker.last, "find", now)
                    ELSE lastWrite

NextTickerCache ==
  \/ Tick
  \/ \E e \in TickerJobs : CollectTickerFire(e)
  \/ \E e \in TickerJobs : JobTickerFetched(e)
  \/ \E e \in TickerJobs : JobTickerSaved(e)
  \/ FindTickerCalled
  \/ FindTickerGot
  \/ FindTickerFetched
  \/ FindTickerSaved

SpecTickerCache == InitTickerCache /\ [][NextTickerCache]_vars

\* C25: a read of the ticker cache less than ticker_ttl after the most
\* recent write of the key, by the ticker job or by an on-demand fetch,
\* returns the ticker of that write; a read at or after ticker_ttl since
\* the most recent write, or with no write at all, is a miss.
C25_TickerLatestWriteWins ==
  \A e \in Exchanges :
    get_ticker(tcache, e, now) =
      IF lastWrite[e].by # "none" /\ now < lastWrite[e].at + ticker_ttl
      THEN lastWrite[e].last ELSE None

\* An on-demand fetch has replaced the live ticker the job had written by
\* another price, and the read returns the price of the on-demand fetch.
C25_Witness ==
  \E e \in Exchanges :
    /\ lastWrite[e].by = "find" /\ lastWrite[e].over = "job"
    /\ tfind.pc = "idle"
    /\ now > lastWrite[e].at
    /\ get_ticker(tcache, e, now) = lastWrite[e].last

(***************************************************************************)
(* The pause map under the jobs of two exchanges and the operator's calls  *)
(* pause_exchange, resume_exchange and get_paused_exchanges.               *)
(***************************************************************************)

\* The jobs registered: the candle job of one tuple, a ticker job per exchange.
PauseCandleJobs == CandleJobs
PauseTickerJobs == Exchanges
\* The venues of this specification answer no fetch with data: every fetch
\* ends in RateLimited or in another error, so the jobs write nothing.
FailingOutcomes == {"rate_limit", "error"}
\* The durations the operator pauses an exchange for.
PauseDurations == {1, RetryAfter + 1}

InitPause ==
  /\ store = {}
  /\ cache = {}
  /\ res = [op |-> "none"]
  /\ lastWrite = {}
  /\ nsaves = 0
  /\ now = MaxTime - 2 * RetryAfter
  /\ paused = [e \in Exchanges |-> None]
  /\ cjob = [tup \in PauseCandleJobs |-> [pc |-> "idle", records |-> <<>>]]
  /\ tjob = [e \in PauseTickerJobs |-> [pc |-> "idle"]]
  /\ gap = [GapNew EXCEPT !.pc = "off"]
  /\ tcache = [e \in Exchanges |-> NoTicker]
  /\ rlUntil = [e \in Exchanges |-> None]
  /\ lastFire = [task |-> "none"]
  /\ lastCall = [task |-> "none"]
  /\ tfind = [pc |-> "idle"]

\* The operator pauses an exchange.
PauseExchange ==
  /\ \E e \in Exchanges, duration \in PauseDurations :
       /\ paused' = pause_exchange(paused, e, duration, now)
       /\ res' = [op |-> "pause_exchange"]
  /\ UNCHANGED <<store, cache, lastWrite, nsaves, now, cjob, tjob, gap, tcache, rlUntil,
                 lastFire, lastCall, tfind>>

\* The operator resumes an exchange.
ResumeExchange ==
  /\ \E e \in Exchanges :
       /\ paused' = resume_exchange(paused, e)
       /\ res' = [op |-> "resume_exchange"]
  /\ UNCHANGED <<store, cache, lastWrite, nsaves, now, cjob, tjob, gap, tcache, rlUntil,
                 lastFire, lastCall, tfind>>

\* The operator lists the paused exchanges.
GetPausedExchanges ==
  /\ paused' = get_paused_exchanges(paused, now)
  /\ res' = [op |-> "get_paused_exchanges"]
  /\ UNCHANGED <<store, cache, lastWrite, nsaves, now, cjob, tjob, gap, tcache, rlUntil,
                 lastFire, lastCall, tfind>>

\* The fetch of a candle job fails.
PauseCandleFetched(tup) ==
  /\ \E outcome \in FailingOutcomes, bar \in FetchedBars : CollectOhlcvOutcome(tup, outcome, bar)
  /\ UNCHANGED res

\* The fetch of a ticker job fails.
PauseTickerFetched(e) ==
  /\ \E outcome \in FailingOutcomes, last \in FetchedLasts, lag \in FetchedLags :
       CollectTickerAnswered(e, outcome, last, lag)
  /\ UNCHANGED lastWrite

NextPause ==
  \/ Tick
  \/ \E tup \in PauseCandleJobs : CollectOhlcvFire(tup)
  \/ \E tup \in PauseCandleJobs : PauseCandleFetched(tup)
  \/ \E e \in PauseTickerJobs : CollectTickerFire(e)
  \/ \E e \in PauseTickerJobs : PauseTickerFetched(e)
  \/ PauseExchange
  \/ ResumeExchange
  \/ GetPausedExchanges

SpecPause == InitPause /\ [][NextPause]_vars

\* C26: in a step in which a job catches RateLimited for an exchange at time
\* now, the pause entry of that exchange becomes now + RetryAfter, and the
\* entry of every other exchange, and so whether its jobs pass the gate,
\* stays as it was.
C26_PauseFrame ==
  [][\A e \in Exchanges :
       rlUntil'[e] # rlUntil[e] =>
         /\ paused'[e] = now + RetryAfter
         /\ \A o \in Exchanges \ {e} :
              /\ paused'[o] = paused[o]
              /\ is_paused(paused', o, now) = is_paused(paused, o, now)]_vars

\* One exchange was rate-limited while another was paused by a rate limit
\* of its own a second earlier; each keeps its own resume time.
C26_Witness ==
  \E e \in Exchanges, o \in Exchanges :
    /\ e # o
    /\ rlUntil[e] = now + RetryAfter /\ paused[e] = now + RetryAfter
    /\ rlUntil[o] = now + RetryAfter - 1 /\ paused[o] = rlUntil[o]

\* A job of exchange e passes the gate in this step: it goes from idle to
\* its adapter call.
PassesGate(e) ==
  \/ \E tup \in DOMAIN cjob : tup[1] = e /\ cjob[tup].pc = "idle" /\ cjob'[tup].pc = "fetch"
  \/ e \in DOMAIN tjob /\ tjob[e].pc = "idle" /\ tjob'[e].pc = "fetch"

\* The resume time of exchange e has come.
PauseOver(e) == paused[e] # None /\ now >= paused[e]

\* C27: once the resume time of an exchange has come, a job of the exchange
\* that fires is not skipped: it passes the gate to its adapter call, and the
\* pass deletes the entry of the exchange; get_paused_exchanges reports only
\* entries whose resume time lies in the future; after resume_exchange the
\* exchange is not paused.
C27_PauseEndsByItself ==
  [][\A e \in Exchanges :
       /\ PauseOver(e) =>
            /\ (lastFire' # lastFire /\ lastFire'.exchange = e) =>
                 (~ lastFire'.skipped /\ PassesGate(e))
            /\ PassesGate(e) => paused'[e] = None
       /\ get_paused_exchanges(paused, now)[e] # None =>
            (get_paused_exchanges(paused, now)[e] = paused[e] /\ paused[e] > now)
       /\ res'.op = "get_paused_exchanges" /\ res.op # "get_paused_exchanges" =>
            (paused'[e] # None => paused'[e] > now)
       /\ ~ is_paused(resume_exchange(paused, e), e, now)
       /\ res'.op = "resume_exchange" /\ res.op # "resume_exchange" =>
            \E x \in Exchanges : ~ is_paused(paused', x, now) /\ paused'[x] = None]_vars

\* Without any call of the operator, a job has fired at or after the resume
\* time set by a rate limit; it was not skipped and the entry is gone.
C27_Witness ==
  \E e \in Exchanges :
    /\ res.op = "none"
    /\ rlUntil[e] # None /\ now >= rlUntil[e]
    /\ lastFire.task = "fire" /\ lastFire.exchange = e /\ ~ lastFire.skipped
    /\ tjob[e].pc = "fetch"
    /\ paused[e] = None

\* The cursors a caller of find may pass.
Cursors == Bounds \cup {EmptyCursor}

\* C28 as claimed: with a cursor present or a clamped limit above
\* CacheReadLimit, find does not read the cache (a failing cache read changes
\* nothing) and answers from the store with cached = false; find answers
\* cached = true only with no cursor, a limit of at most CacheReadLimit and
\* a non-empty cache result, which it returns with next_cursor none; an
\* empty cache result falls through to the store.
C28_CacheReadOnlyWithoutCursor ==
  \A tup \in Tuples, start \in Bounds, end \in Bounds, cursor \in Cursors, lim \in Limits :
    LET limit == Min(lim, MaxLimit)
        r == OHLCVRepository_find(store, cache, tup, start, end, lim, cursor, FALSE)
        fromCache == get_ohlcv(cache, tup, start, end, limit)
        fromStore == FindInStore(store, tup, start, end, limit, cursor)
    IN  /\ (cursor # None \/ limit > CacheReadLimit) =>
             /\ r = fromStore /\ ~ r.cached
             /\ OHLCVRepository_find(store, cache, tup, start, end, lim, cursor, TRUE) = r
        /\ r.cached =>
             /\ cursor = None /\ limit <= CacheReadLimit /\ fromCache # <<>>
             /\ r.records = fromCache /\ r.next_cursor = None
        /\ (cursor = None /\ limit <= CacheReadLimit /\ fromCache = <<>>) => r = fromStore

(***************************************************************************)
(* One writer and one reader of a tuple whose calls overlap: a candle job  *)
(* or gap-fill batch saves while a request reads the latest candle.        *)
(***************************************************************************)

\* The batches of the writer: candles of the tuple.
WriterBatches == {b \in Batches : \A i \in DOMAIN b : TupleOf(b[i]) = GapTuple}

\* The writer opens a session and calls save.
WriterSave ==
  /\ \E records \in WriterBatches, executeRaises \in BOOLEAN : SaveCalled(records, executeRaises)
  /\ UNCHANGED res

\* The cache write of the writer.
WriterCache ==
  /\ \E cacheRaises \in BOOLEAN : SaveCachedWith(cacheRaises)
  /\ UNCHANGED res

\* The session of the writer commits.
WriterCommit ==
  /\ \E commitRaises \in BOOLEAN : SaveCommittedWith(commitRaises)
  /\ UNCHANGED res

\* A request for the candles of the tuple from the start on, without cursor.
ReaderFind ==
  \E limit \in 1..MaxLimit, cacheRaises \in BOOLEAN :
    FindWith(GapTuple, None, None, limit, None, cacheRaises)

NextReadWrite == WriterSave \/ WriterCache \/ WriterCommit \/ ReaderFind \/ FindSelected

SpecReadWrite == InitRepo /\ [][NextReadWrite]_vars

\* C29 as claimed: the cache is written only after the commit of the batch,
\* so a batch whose transaction did not commit leaves no record in the cache:
\* every record in the cache is a row of the store.
C29_CacheAfterCommit == cache \subseteq store

\* C30 as claimed: a cache key holds at most one entry per timestamp, and
\* caching a batch replaces the entries of its timestamps: after cache_ohlcv
\* with any batch, an entry with the identity key of a record of the batch
\* is that record, so a read returns no older value of it.
C30_CacheKeyedByTimestamp ==
  /\ \A m1, m2 \in cache : Key(m1) = Key(m2) => m1 = m2
  /\ \A records \in Batches :
       ~ HasDuplicateKeys(records) =>
         LET after == cache_ohlcv(cache, records)
         IN  /\ \A m1, m2 \in after : Key(m1) = Key(m2) => m1 = m2
             /\ \A r \in Range(records), m \in after : Key(m) = Key(r) => m = r
             /\ \A r \in Range(records) :
                  \A m \in Range(get_ohlcv(after, TupleOf(r), r.timestamp, r.timestamp, CacheReadLimit)) :
                    m = r

(***************************************************************************)
(* One client paginating through the store (OHLCVRepository.find with the  *)
(* next_cursor of each page) while candle jobs and gap-fill batches save.  *)
(***************************************************************************)

\* A writer opens a session and calls save while the client pages.
ConcurrentSave ==
  /\ \E records \in Batches, executeRaises \in BOOLEAN : SaveCalled(records, executeRaises)
  /\ UNCHANGED res

\* The cache write of the writer.
ConcurrentCache ==
  /\ \E cacheRaises \in BOOLEAN : SaveCachedWith(cacheRaises)
  /\ UNCHANGED res

\* The session of the writer commits between two page requests.
ConcurrentCommit ==
  /\ \E commitRaises \in BOOLEAN : SaveCommittedWith(commitRaises)
  /\ res' = IF res.op = "page" /\ ~ res.done /\ store' # store
            THEN [res EXCEPT !.writes = res.writes + 1] ELSE res

\* History of a pagination: the filters, the rows that matched before the
\* first request, the pages collected so far and the cursor to follow.
PageResult(h, r) ==
  [h EXCEPT !.pages = h.pages \o r.records, !.npages = h.npages + 1,
            !.cursor = r.next_cursor, !.done = r.next_cursor = None,
            !.cached = h.cached \/ r.cached, !.failed = h.failed \/ r.kind # "ok"]

\* The first request of a pagination that the store serves: a cursor is set
\* or the limit is above the cache threshold.
PageFirst ==
  /\ res.op = "none"
  /\ \E tup \in Tuples, start \in FindBounds, end \in FindBounds, lim \in Limits, cursor \in Bounds :
       /\ cursor # None \/ Min(lim, MaxLimit) > CacheReadLimit
       /\ LET r == OHLCVRepository_find(store, cache, tup, start, end, lim, cursor, FALSE)
              h == [op |-> "page", tup |-> tup, start |-> start, end |-> end, limit |-> lim,
                    before |-> {x \in Matching(store, tup, start, end) :
                                  cursor = None \/ x.timestamp > cursor},
                    pages |-> <<>>, npages |-> 0, cursor |-> cursor, done |-> FALSE,
                    cached |-> FALSE, failed |-> FALSE, writes |-> 0]
          IN  res' = PageResult(h, r)
  /\ UNCHANGED <<store, cache, lastWrite, nsaves>>
  /\ UNCHANGED schedVars

\* The next request: the same filters and limit, with the next_cursor.
PageNext ==
  /\ res.op = "page" /\ ~ res.done
  /\ LET r == OHLCVRepository_find(store, cache, res.tup, res.start, res.end, res.limit,
                                   res.cursor, FALSE)
     IN  res' = PageResult(res, r)
  /\ UNCHANGED <<store, cache, lastWrite, nsaves>>
  /\ UNCHANGED schedVars

NextPage == ConcurrentSave \/ ConcurrentCache \/ ConcurrentCommit \/ PageFirst \/ PageNext

SpecPage == InitRepo /\ [][NextPage]_vars

\* C31: in a pagination served by the store with saves interleaved between
\* its requests, the timestamps of the concatenated pages are strictly
\* ascending (so no row is on two pages), every page comes from the store,
\* and once the last page has arrived every matching row that was in the
\* store before the first request has been returned exactly once.
C31_PaginationStableUnderWrites ==
  res.op = "page" =>
    /\ ~ res.cached /\ ~ res.failed
    /\ \A i, j \in DOMAIN res.pages :
         i < j => res.pages[i].timestamp < res.pages[j].timestamp
    /\ res.done =>
         \A b \in res.before :
           Cardinality({i \in DOMAIN res.pages : Key(res.pages[i]) = Key(b)}) = 1

\* A finished pagination of several pages, with a save between its requests
\* that wrote a row the pages then returned.
C31_Witness ==
  /\ res.op = "page" /\ res.done /\ res.npages >= 2 /\ res.writes >= 1
  /\ res.before # {}
  /\ \E i \in DOMAIN res.pages : res.pages[i] \notin res.before

\* The intervals the gap-fill task plans from the store as it is now.
PlannedRuns ==
  Gaps(missing_timestamps(gap.expected, existing_timestamps(store, GapTuple, gap.now_ms)))

\* C32 as claimed: when the gap-fill task plans, an expected timestamp that
\* is in the store (aligned_start included) lies in no interval it plans,
\* and with every expected timestamp in the store it plans no interval, so
\* it makes no adapter call and no write.
C32_FetchesOnlyMissing ==
  gap.pc = "query" =>
    /\ \A ts \in gap.expected \cap present(store, GapTuple) :
         \A i \in DOMAIN PlannedRuns : ~ (PlannedRuns[i][1] <= ts /\ ts <= PlannedRuns[i][2])
    /\ gap.expected \subseteq present(store, GapTuple) => PlannedRuns = <<>>

\* The timestamps of an interval (gap_start, gap_end), one period apart.
RunTimestamps(run) ==
  {ts \in run[1]..run[2] : (ts - run[1]) % timeframe_ms = 0}

\* C33: when the gap-fill task plans, for every set of missing timestamps
\* of its window the intervals come in ascending order, each from a start
\* to an end a whole number of periods later, the start of each more than
\* one period after the end of the one before (so they are disjoint and
\* maximal), and together they hold exactly the missing timestamps.
C33_MaximalContiguousRuns ==
  gap.pc = "query" =>
    /\ gap.gaps = <<>>
    /\ \A S \in SUBSET gap.expected :
         LET runs == Gaps(SortedInts(S))
         IN  /\ \A i \in DOMAIN runs :
                  /\ runs[i][1] <= runs[i][2]
                  /\ (runs[i][2] - runs[i][1]) % timeframe_ms = 0
                  /\ i > 1 => runs[i][1] > runs[i - 1][2] + timeframe_ms
             /\ UNION {RunTimestamps(runs[i]) : i \in DOMAIN runs} = S

\* The task is about to plan, and the timestamps missing from the store fall
\* into two intervals, one of them of several timestamps.
C33_Witness ==
  /\ gap.pc = "query"
  /\ Len(PlannedRuns) = 2
  /\ \E i \in DOMAIN PlannedRuns : PlannedRuns[i][1] < PlannedRuns[i][2]

(***************************************************************************)
(* One gap-fill task against a venue that answers a fetch with an error,   *)
(* no row, or at most `limit` rows of ascending timestamps >= since, not   *)
(* necessarily every candle asked for.                                     *)
(***************************************************************************)

\* The responses of the venue to fetch_ohlcv(since, limit) that hold rows:
\* candles of some of the periods since, since + delta, ..., at most limit.
VenueRows(since, limit) ==
  LET grid == {since + k * timeframe_ms : k \in 0..limit}
      picks == {T \in SUBSET grid : T # {} /\ Cardinality(T) <= limit}
  IN  {[i \in 1..Cardinality(T) |-> OHLCV(GapTuple, SortedInts(T)[i], bar)] :
         T \in picks, bar \in FetchedBars}

\* The venue answers the fetch of the gap-fill task.
GapVenueAnswered ==
  /\ \/ \E records \in VenueRows(gap.current_start, gap.limit) \cup {<<>>} :
          GapAnsweredWith("records", records)
     \/ \E outcome \in {"rate_limit", "error"} : GapAnsweredWith(outcome, <<>>)
  /\ UNCHANGED res

NextGap ==
  \/ Tick
  \/ GapStart
  \/ GapQueried
  \/ GapPlanned
  \/ GapVenueAnswered
  \/ GapExecute
  \/ GapCache
  \/ GapCommit
  \/ GapWoke

\* The tables the gap-fill task starts from.
GapStores ==
  StoresOf({{}, {0, 2 * timeframe_ms}, {timeframe_ms}, expected_timestamps(StartTime)})

InitGap == InitWith(GapStores)

SpecGap == InitGap /\ [][NextGap]_vars

\* The interval the task is working on.
CurrentRun == gap.gaps[gap.gi]

\* The task leaves its current interval in this step.
LeavesRun == gap'.pc = "done" \/ gap'.gi # gap.gi

\* C34: a fetch is issued with since inside its interval and with
\* limit = min(batch_size, (gap_end - since) / delta + 1) >= 1; the first
\* fetch of an interval has since = gap_start, each later one the timestamp
\* of the last row of the response before plus delta; and the interval is
\* left as soon as a response is empty or shorter than limit, or since has
\* passed gap_end.
C34_FetchWithinRun ==
  [][/\ gap'.pc = "fetch" =>
          /\ gap'.gaps[gap'.gi][1] <= gap'.current_start
          /\ gap'.current_start <= gap'.gaps[gap'.gi][2]
          /\ gap'.limit = Min(batch_size,
                              ((gap'.gaps[gap'.gi][2] - gap'.current_start) \div timeframe_ms) + 1)
          /\ gap'.limit >= 1
     /\ (gap'.pc = "fetch" /\ (gap.pc = "plan" \/ gap'.gi # gap.gi)) =>
          gap'.current_start = gap'.gaps[gap'.gi][1]
     /\ (gap.pc = "commit" /\ gap'.pc = "sleep") =>
          /\ gap'.current_start = gap.records[Len(gap.records)].timestamp + timeframe_ms
          /\ Len(gap.records) = gap.limit
     /\ (gap.pc = "sleep" /\ gap'.pc = "fetch" /\ gap'.gi = gap.gi) =>
          gap'.current_start = gap.current_start
     /\ (gap.pc = "fetch" /\ gap'.pc # "save" /\ gap' # gap) => LeavesRun
     /\ (gap.pc = "commit" /\ gap' # gap /\ Len(gap.records) < gap.limit) => LeavesRun
     /\ (gap.pc = "sleep" /\ gap' # gap /\ gap.current_start > CurrentRun[2]) => LeavesRun
    ]_vars

\* The second fetch of an interval has been issued, after a first response
\* that was full but skipped a candle.
C34_Witness ==
  /\ gap.pc = "fetch" /\ gap.gi >= 1
  /\ gap.current_start > CurrentRun[1] + batch_size * timeframe_ms
  /\ gap.current_start <= CurrentRun[2]

\* C35: when a fetch of the gap-fill task raises RateLimited, the task
\* pauses the exchange and returns: it issues no further fetch, neither for
\* the current interval nor for a later one, and the rows written by its
\* earlier batches stay in the store.
C35_RateLimitEndsTask ==
  [][/\ GapAnsweredWith("rate_limit", <<>>) =>
          /\ is_paused(paused', GapTuple[1], now')
          /\ gap'.pc = "done"
          /\ store' = store
          /\ lastCall' = lastCall
     /\ gap.pc = "done" =>
          /\ gap'.pc = "done"
          /\ store' = store
          /\ lastCall' = lastCall
    ]_vars

\* The task was rate limited after a batch of the interval had been written
\* and before the end of the interval was reached.
C35_Witness ==
  /\ gap.pc = "done"
  /\ paused[GapTuple[1]] # None
  /\ gap.gi >= 1
  /\ gap.current_start <= CurrentRun[2]
  /\ gap.current_start > CurrentRun[1]
  /\ \E r \in store : r.timestamp \in RunTimestamps(CurrentRun)

\* The save of the batch fails in this step: the INSERT or the cache write
\* inside save, or the commit of the session.
GapSaveFails ==
  \/ \E executeRaises \in BOOLEAN :
       /\ gap.pc = "save"
       /\ OHLCVRepository_save(store, cache, gap.records, executeRaises, FALSE).kind # "ok"
       /\ GapExecutedWith(TRUE, executeRaises)
  \/ GapCachedWith(TRUE)
  \/ GapCommittedWith(TRUE)

\* The task gives up its current interval and goes on with the next one in
\* order, or ends when there is none.
AbandonsOnlyRun ==
  IF gap.gi < Len(gap.gaps)
  THEN /\ gap'.pc = "fetch"
       /\ gap'.gi = gap.gi + 1
       /\ gap'.current_start = gap.gaps[gap.gi + 1][1]
  ELSE gap'.pc = "done"

\* C36: an error of the adapter other than RateLimited, or a failure of the
\* store, inside an interval makes the task give up that interval only and
\* go on with the next interval in order; the pause map is left as it was,
\* and the task ends normally (the failure of the planning query included).
C36_ErrorAbandonsOnlyRun ==
  [][/\ (GapAnsweredWith("error", <<>>) \/ GapSaveFails) =>
          /\ AbandonsOnlyRun
          /\ paused' = paused
          /\ gap'.gaps = gap.gaps
     /\ (gap.pc \in {"query", "plan"} /\ gap'.storeOk # gap.storeOk) =>
          /\ gap'.pc = "done"
          /\ paused' = paused
    ]_vars

\* After a failed save in an earlier interval the task is fetching the first
\* batch of a later interval, with no exchange paused.
C36_Witness ==
  /\ gap.pc = "fetch"
  /\ ~gap.storeOk
  /\ gap.gi >= 2
  /\ gap.current_start = CurrentRun[1]
  /\ \A e \in Exchanges : paused[e] = None

\* C37: between any two consecutive adapter calls of one gap-fill task the
\* task sleeps: every call after the first one of the task is issued by the
\* step that ends the sleep, also when it is the first call of an interval
\* and the interval before ended on an empty or short response or an error.
C37_SleepBetweenFetches ==
  [][(gap'.pc = "fetch" /\ gap' # gap) => gap.pc \in {"plan", "sleep"}]_vars

\* C38: the gap-fill task holds no store session while it sleeps between
\* two batches or waits for the answer of the adapter, and the save of a
\* batch works in a session of its own, opened for it and closed with it.
C38_NoSessionAcrossSuspension ==
  [][/\ gap'.pc \in {"sleep", "fetch", "done"} => gap'.sessions = 0
     /\ (gap.pc \in {"save", "cache"} /\ gap' # gap) =>
          (gap.sessions = 1 /\ gap'.sessions = IF gap'.pc \in {"cache", "commit"} THEN 1 ELSE 0)
     /\ (gap.pc = "commit" /\ gap' # gap) => (gap.sessions = 1 /\ gap'.sessions = 0)
     /\ (gap.pc = "fetch" /\ gap'.pc = "save") => gap.sessions = 0
    ]_vars

\* The task sleeps after a batch was saved in the second session it opened.
C38_Witness ==
  /\ gap.pc = "sleep"
  /\ gap.sessions = 0
  /\ gap.current_start > CurrentRun[1]
  /\ \E r \in store : r.timestamp \in RunTimestamps(CurrentRun)

(***************************************************************************)
(* The gap-fill task under the scheduling of the event loop: a coroutine   *)
(* that can run does run, an awaited call is answered, and the time of a   *)
(* sleep passes.                                                           *)
(***************************************************************************)

\* asyncio.sleep(1.0), line 398: time passes while the task sleeps.
GapSleepTick ==
  /\ gap.pc = "sleep"
  /\ now < gap.wake
  /\ now' = now + 1
  /\ UNCHANGED <<repoVars, paused, cjob, tjob, gap, tcache, rlUntil, lastFire, lastCall, tfind>>

NextGapFair ==
  \/ GapStart
  \/ GapQueried
  \/ GapPlanned
  \/ GapVenueAnswered
  \/ GapExecute
  \/ GapCache
  \/ GapCommit
  \/ GapWoke
  \/ GapSleepTick

SpecGapFair ==
  /\ InitGap
  /\ [][NextGapFair]_vars
  /\ WF_vars(GapStart)
  /\ WF_vars(GapQueried)
  /\ WF_vars(GapPlanned)
  /\ WF_vars(GapVenueAnswered)
  /\ WF_vars(GapExecute)
  /\ WF_vars(GapCache)
  /\ WF_vars(GapCommit)
  /\ WF_vars(GapWoke)
  /\ WF_vars(GapSleepTick)

\* C39: against a venue whose every response is an error, empty, or at
\* most limit rows of ascending timestamps >= since, since grows with every
\* batch of an interval, an interval of n missing timestamps sees at most n
\* adapter calls, and the task comes to its end.
C39_GapFillTerminates ==
  /\ [][(gap.pc = "commit" /\ gap'.pc = "sleep") =>
          gap'.current_start > gap.current_start]_vars
  /\ [](gap.pc \in {"fetch", "save", "cache", "commit", "sleep"} =>
          gap.fetches <= Cardinality(RunTimestamps(CurrentRun)))
  /\ <>(gap.pc = "done")

\* The task has ended after a second adapter call in one interval.
C39_Witness ==
  /\ gap.pc = "done"
  /\ gap.gi >= 1
  /\ gap.fetches >= 2

\* C40: a pause is never shortened by a later pause: while exchange e is
\* paused until resume_at, a RateLimited of a job in flight or a
\* pause_exchange of the operator leaves e paused until resume_at at least;
\* only resume_exchange removes the entry before its time.
C40_PauseNeverShortened ==
  [][\A e \in Exchanges :
       (paused[e] # None /\ now < paused[e]) =>
         IF paused'[e] = None
         THEN paused' = resume_exchange(paused, e)
         ELSE paused'[e] >= paused[e]
    ]_vars

====
